---- MODULE Spec2Model ----
(***************************************************************************)
(* Model of the in-memory vector store (src/src/rag/vector-store.ts).      *)
(*                                                                         *)
(* Numbers.  The store computes with IEEE doubles.  The model computes     *)
(* with fixed-point numbers: the integer x stands for x / Scale, products, *)
(* quotients and square roots are rounded to the nearest representable     *)
(* number, as a floating-point unit rounds them (at a coarser precision).  *)
(*                                                                         *)
(* Calls.  Every method of VectorStore runs from its first statement to    *)
(* its last without an await, so one action models one whole call.  The    *)
(* caller's side of a call is the variable ret: the call's arguments and   *)
(* what the returned promise settles with.  Return is the caller taking    *)
(* the settled promise; the next call is made after that.                  *)
(***************************************************************************)
EXTENDS Integers, Sequences, FiniteSets, TLC

(* ------------------------------ bounds -------------------------------- *)

\* Fixed-point resolution: Scale stands for 1.0.
Scale == 100

\* Total number of vectors appended by addVectors in one run.
MaxAdded == 3

\* Largest k passed to search.
MaxK == 4

\* The length of the vectors the embedder declares (1024 in the source).
EmbeddingDimension == 2

\* Number of calls of QueryRAG.addQuery that reach the catalogue.
MaxQueries == 1

(* ------------------------------ inputs -------------------------------- *)

Ids == {"a", "b", "c"}

VecA == <<Scale, 0>>
VecB == <<0, Scale>>
VecC == <<(9 * Scale) \div 10, Scale \div 10>>
VecZ == <<0, 0>>
VecW3 == <<Scale, 0, 0>>
VecV4 == <<0, Scale, 0, 0>>
\* One unit of the resolution: a non-zero vector whose squares underflow,
\* as those of [1e-200, 0] do in doubles.
VecTiny == <<1, 0>>

InputVectors == {VecA, VecB, VecC, VecZ, VecW3, VecV4}

\* Two-element batches: both right, the second wrong, the first wrong, both
\* wrong (for a store of dimension 2).
FirstVectors == {VecA, VecW3}
SecondVectors == {VecC, VecW3}

\* addVectors(vectors, queryIds) with as many ids as vectors ...
MatchedInputs ==
  {<<<<>>, <<>>>>}
    \cup {<<<<v>>, <<i>>>> : v \in InputVectors, i \in Ids}
    \cup {<<<<v, w>>, <<"a", "b">>>> : v \in FirstVectors, w \in SecondVectors}
    \cup {<<<<VecTiny>>, <<"a">>>>}

\* ... and with more or fewer ids than vectors.
MismatchedInputs ==
  {<<<<VecA>>, <<>>>>, <<<<>>, <<"a">>>>,
   <<<<VecA>>, <<"a", "b">>>>, <<<<VecA, VecC>>, <<"c">>>>}

AddInputs == MatchedInputs \cup MismatchedInputs

Queries == {VecA, VecC, VecZ, VecW3, VecV4, VecTiny}

UpdateInputs == {VecB, VecZ, VecW3}

Dims == {Len(VecA), Len(VecV4)}

Ks == {1, 2, MaxK}

(* --------------------------- state ------------------------------------ *)

VARIABLES
  vectors,            \* this.vectors: raw vectors
  normalizedVectors,  \* this.normalizedVectors
  metadata,           \* this.metadata: records {id, index, norm}
  dimension,          \* this.dimension: <<>> is null, <<d>> is the number d
  isInitialized,      \* this.isInitialized
  ret,                \* the last call and what it settled with
  added,              \* history: vectors appended by addVectors
  removed,            \* history: successful removeVector calls
  discarded,          \* history: records thrown away by cleanup
  queryRagIsInitialized,  \* QueryRAG.isInitialized
  embedderIsInitialized,  \* E5Embedder.isInitialized (the model is loaded)
  queries,            \* QueryData.queries: the Map's values in insertion order
  disk,               \* the records in the data file queries.json
  modelDimension,     \* the length of the vectors the configured model returns
  uuids,              \* how many ids randomUUID() has handed out
  pc,                 \* where the QueryRAG call in flight is suspended
  frame,              \* the arguments and locals of the call in flight
  ragRet,             \* the last QueryRAG call and what it settled with
  lifecycle           \* history: "new" until an initialize succeeds,
                      \* "initialized" from then until close is called,
                      \* "closed" from then until an initialize succeeds
VARIABLES
  callers,            \* overlapping calls of QueryRAG: for each caller where
                      \* its call is suspended, its locals and its last result
  inspector,          \* McpInspector: options, logs, metrics
  requests            \* McpTools.callTool: the invocations in flight, the
                      \* last one settled, and the history of the log

storeVars == <<vectors, normalizedVectors, metadata, dimension, isInitialized>>
histVars == <<added, removed, discarded>>
ragVars == <<queryRagIsInitialized, embedderIsInitialized, queries, disk,
             modelDimension, uuids, pc, frame, ragRet, lifecycle>>
overlapVars == <<callers>>
toolVars == <<inspector, requests>>
layerVars == <<ragVars, overlapVars, toolVars>>
vars == <<vectors, normalizedVectors, metadata, dimension, isInitialized,
          ret, added, removed, discarded, ragVars, overlapVars, toolVars>>

(* --------------------------- arithmetic ------------------------------- *)

\* a / b rounded to the nearest integer (b > 0).
RoundDiv(a, b) == (2 * a + b) \div (2 * b)

\* x * y on fixed-point numbers.
Mul(x, y) == RoundDiv(x * y, Scale)

\* x / y on fixed-point numbers (y > 0).
Div(x, y) == RoundDiv(x * Scale, y)

RECURSIVE NewtonSqrt(_, _)
\* Integer square root by Newton's iteration from a guess r >= sqrt(n), n > 0:
\* the largest r with r * r <= n.
NewtonSqrt(n, r) ==
  LET next == (r + n \div r) \div 2
  IN IF next >= r THEN r ELSE NewtonSqrt(n, next)

\* Math.sqrt on a fixed-point number x >= 0, rounded to nearest.
Sqrt(x) ==
  IF x = 0 THEN 0
  ELSE LET n == x * Scale
           r == NewtonSqrt(n, (x + Scale) \div 2 + 1)
       IN IF n - r * r > r THEN r + 1 ELSE r

RECURSIVE SumSquares(_, _)
\* vector.reduce((sum, val) => sum + val * val, 0) over the first n components
SumSquares(vector, n) ==
  IF n = 0 THEN 0
  ELSE SumSquares(vector, n - 1) + Mul(vector[n], vector[n])

vectorNorm(vector) == Sqrt(SumSquares(vector, Len(vector)))

\* Variant: a vector of norm 0 is normalized to the first unit vector.
normalizeVectorToUnit(vector) ==
  LET norm == vectorNorm(vector)
  IN IF norm = 0 THEN [i \in 1..Len(vector) |-> IF i = 1 THEN Scale ELSE 0]
     ELSE [i \in 1..Len(vector) |-> Div(vector[i], norm)]

normalizeVector(vector) ==
  LET norm == vectorNorm(vector)
  IN IF norm = 0 THEN vector
     ELSE [i \in 1..Len(vector) |-> Div(vector[i], norm)]

RECURSIVE DotLoop(_, _, _)
\* the loop of fastCosineSimilarity: i runs over normalizedA
DotLoop(normalizedA, normalizedB, n) ==
  IF n = 0 THEN 0
  ELSE DotLoop(normalizedA, normalizedB, n - 1)
       + Mul(normalizedA[n], normalizedB[n])

fastCosineSimilarity(normalizedA, normalizedB) ==
  DotLoop(normalizedA, normalizedB, Len(normalizedA))

(* --------------------------- call records ----------------------------- *)

NoError == [kind |-> "none", index |-> 0 - 1]
Error(kind) == [kind |-> kind, index |-> 0 - 1]
\* `Vector ${i} has wrong dimension`: the error names the batch position i
ErrorAt(kind, i) == [kind |-> kind, index |-> i]

NoCall == [op |-> "none", args |-> <<>>, err |-> NoError, out |-> <<>>]
Call(op, args, err, out) == [op |-> op, args |-> args, err |-> err, out |-> out]

\* vector.length !== this.dimension
WrongDimension(vector) == dimension = <<>> \/ Len(vector) # dimension[1]

(* --------------------------- array helpers ---------------------------- *)

\* Array.prototype.push
Push(s, e) == Append(s, e)

\* Variant: splice(index, 0), which deletes nothing.
SpliceNothing(s, pos) == s

\* Variant: splice(-1, 1) whatever the index, which deletes the last element.
SpliceLast(s, pos) == SubSeq(s, 1, Len(s) - 1)

\* Array.prototype.splice(index, 1); pos is the 1-based position
Splice(s, pos) == SubSeq(s, 1, pos - 1) \o SubSeq(s, pos + 1, Len(s))

\* Variant: an id that is not found counts as found at the last position,
\* as splice(-1, 1) would take it.
FindIndexOrLast(meta, queryId) ==
  IF \E p \in 1..Len(meta) : meta[p].id = queryId
  THEN CHOOSE p \in 1..Len(meta) :
         /\ meta[p].id = queryId
         /\ \A q \in 1..(p - 1) : meta[q].id # queryId
  ELSE Len(meta)

\* Variant: findLastIndex, the highest position with the id.
FindLastIndex(meta, queryId) ==
  IF \E p \in 1..Len(meta) : meta[p].id = queryId
  THEN CHOOSE p \in 1..Len(meta) :
         /\ meta[p].id = queryId
         /\ \A q \in (p + 1)..Len(meta) : meta[q].id # queryId
  ELSE 0

\* Array.prototype.findIndex(meta => meta.id === queryId): 1-based, 0 if none
FindIndex(meta, queryId) ==
  IF \E p \in 1..Len(meta) : meta[p].id = queryId
  THEN CHOOSE p \in 1..Len(meta) :
         /\ meta[p].id = queryId
         /\ \A q \in 1..(p - 1) : meta[q].id # queryId
  ELSE 0

Min(a, b) == IF a <= b THEN a ELSE b

(* --------------------------- addVectors ------------------------------- *)

RECURSIVE AddLoopUnchecked(_, _, _, _)
\* Variant: the loop without its length check.
AddLoopUnchecked(vecs, queryIds, i, st) ==
  IF i > Len(vecs) THEN st
  ELSE LET V == Push(st.vectors, vecs[i])
           N == Push(st.normalizedVectors, normalizeVector(vecs[i]))
           M == Push(st.metadata, [id    |-> queryIds[i],
                                   index |-> Len(V) - 1,
                                   norm  |-> vectorNorm(vecs[i])])
       IN AddLoopUnchecked(vecs, queryIds, i + 1,
                           [vectors |-> V, normalizedVectors |-> N,
                            metadata |-> M, err |-> st.err])

\* Variant: the whole batch is validated before anything is stored.
AddLoopAtomic(vecs, queryIds, i, st) ==
  IF \E j \in i..Len(vecs) : WrongDimension(vecs[j])
  THEN [st EXCEPT !.err =
          ErrorAt("DimensionMismatch",
                  (CHOOSE j \in i..Len(vecs) :
                     /\ WrongDimension(vecs[j])
                     /\ \A h \in i..(j - 1) : ~WrongDimension(vecs[h])) - 1)]
  ELSE AddLoopUnchecked(vecs, queryIds, i, st)

RECURSIVE AddLoopTorn(_, _, _, _)
\* Variant: the loop is left between the push of the raw vector and the
\* pushes of the normalized vector and the metadata record.
AddLoopTorn(vecs, queryIds, i, st) ==
  IF i > Len(vecs) THEN st
  ELSE IF WrongDimension(vecs[i])
  THEN [st EXCEPT !.err = ErrorAt("DimensionMismatch", i - 1),
                  !.vectors = Push(st.vectors, vecs[i])]
  ELSE LET V == Push(st.vectors, vecs[i])
           N == Push(st.normalizedVectors, normalizeVector(vecs[i]))
           M == Push(st.metadata, [id    |-> queryIds[i],
                                   index |-> Len(V) - 1,
                                   norm  |-> vectorNorm(vecs[i])])
       IN AddLoopTorn(vecs, queryIds, i + 1,
                      [vectors |-> V, normalizedVectors |-> N,
                       metadata |-> M, err |-> st.err])

RECURSIVE AddLoop(_, _, _, _)
\* The for loop of addVectors from batch position i (1-based here, the
\* error names the 0-based i - 1).  st holds the three arrays as built so
\* far; the loop stops at the first vector of the wrong length.
AddLoop(vecs, queryIds, i, st) ==
  IF i > Len(vecs) THEN st
  ELSE IF WrongDimension(vecs[i])
  THEN [st EXCEPT !.err = ErrorAt("DimensionMismatch", i - 1)]
  ELSE LET V == Push(st.vectors, vecs[i])
           N == Push(st.normalizedVectors, normalizeVector(vecs[i]))
           M == Push(st.metadata, [id    |-> queryIds[i],
                                   index |-> Len(V) - 1,
                                   norm  |-> vectorNorm(vecs[i])])
       IN AddLoop(vecs, queryIds, i + 1,
                  [vectors |-> V, normalizedVectors |-> N,
                   metadata |-> M, err |-> st.err])

\* Variant: the two checks in the other order.
AddPrecheckSwapped(vecs, queryIds) ==
  IF Len(vecs) # Len(queryIds) THEN Error("ArgumentMismatch")
  ELSE IF ~isInitialized THEN Error("NotInitialized")
  ELSE NoError

\* The two checks addVectors makes before its loop, in the order it makes
\* them.
AddPrecheck(vecs, queryIds) ==
  IF ~isInitialized THEN Error("NotInitialized")
  ELSE IF Len(vecs) # Len(queryIds) THEN Error("ArgumentMismatch")
  ELSE NoError

AddVectors(vecs, queryIds) ==
  /\ ret = NoCall
  /\ IF AddPrecheck(vecs, queryIds) # NoError
     THEN /\ ret' = Call("addVectors", <<vecs, queryIds>>,
                         AddPrecheck(vecs, queryIds), <<>>)
          /\ UNCHANGED <<storeVars, histVars>>
     ELSE LET st == AddLoop(vecs, queryIds, 1,
                            [vectors |-> vectors,
                             normalizedVectors |-> normalizedVectors,
                             metadata |-> metadata, err |-> NoError])
              n == Len(st.vectors) - Len(vectors)
          IN /\ added + n <= MaxAdded
             /\ vectors' = st.vectors
             /\ normalizedVectors' = st.normalizedVectors
             /\ metadata' = st.metadata
             /\ added' = added + n
             /\ ret' = Call("addVectors", <<vecs, queryIds>>, st.err, <<>>)
             /\ UNCHANGED <<dimension, isInitialized, removed, discarded>>

(* --------------------------- initialize / cleanup --------------------- *)

\* Variant: initialize without its early return.
InitializeAlways(d) ==
  /\ ret = NoCall
  /\ dimension' = <<d>>
  /\ isInitialized' = TRUE
  /\ ret' = Call("initialize", <<d>>, NoError, <<>>)
  /\ UNCHANGED <<vectors, normalizedVectors, metadata, histVars>>

Initialize(d) ==
  /\ ret = NoCall
  /\ IF isInitialized
     THEN UNCHANGED <<dimension, isInitialized>>
     ELSE /\ dimension' = <<d>>
          /\ isInitialized' = TRUE
  /\ ret' = Call("initialize", <<d>>, NoError, <<>>)
  /\ UNCHANGED <<vectors, normalizedVectors, metadata, histVars>>

\* Variant: cleanup empties the collections and leaves the flag set.
CleanupKeepsFlag ==
  /\ ret = NoCall
  /\ vectors' = <<>>
  /\ normalizedVectors' = <<>>
  /\ metadata' = <<>>
  /\ discarded' = discarded + Len(vectors)
  /\ ret' = Call("cleanup", <<>>, NoError, <<>>)
  /\ UNCHANGED <<dimension, isInitialized, added, removed>>

Cleanup ==
  /\ ret = NoCall
  /\ vectors' = <<>>
  /\ normalizedVectors' = <<>>
  /\ metadata' = <<>>
  /\ isInitialized' = FALSE
  /\ discarded' = discarded + Len(vectors)
  /\ ret' = Call("cleanup", <<>>, NoError, <<>>)
  /\ UNCHANGED <<dimension, added, removed>>

(* --------------------------- search ----------------------------------- *)

\* (a, b) => b.similarity - a.similarity
Compare(a, b) == b.similarity - a.similarity

\* Variant: an unstable sort, x goes in front of the elements it ties with.
InsertSortedUnstable(sorted, x) ==
  LET p == Cardinality({j \in 1..Len(sorted) : Compare(sorted[j], x) < 0})
  IN SubSeq(sorted, 1, p) \o <<x>> \o SubSeq(sorted, p + 1, Len(sorted))

\* One step of a stable sort: x goes behind every element that the
\* comparator does not order after it.
InsertSorted(sorted, x) ==
  LET p == Cardinality({j \in 1..Len(sorted) : Compare(sorted[j], x) <= 0})
  IN SubSeq(sorted, 1, p) \o <<x>> \o SubSeq(sorted, p + 1, Len(sorted))

RECURSIVE SortLoop(_, _)
\* Array.prototype.sort (stable since ES2019) on the first n elements
SortLoop(s, n) ==
  IF n = 0 THEN <<>> ELSE InsertSorted(SortLoop(s, n - 1), s[n])

\* Variant: slice(0, k - 1).
SliceShort(s, k) == SubSeq(s, 1, Min(k - 1, Len(s)))

\* Array.prototype.slice(0, k) for k >= 0
Slice(s, k) == SubSeq(s, 1, Min(k, Len(s)))

partialSort(similarities, k) ==
  Slice(SortLoop(similarities, Len(similarities)), k)

\* the scan of search: one entry per stored normalized vector
Similarities(normalizedQuery) ==
  [i \in 1..Len(normalizedVectors) |->
     [index      |-> i - 1,
      similarity |-> fastCosineSimilarity(normalizedQuery, normalizedVectors[i]),
      id         |-> metadata[i].id]]

\* topK.map(result => ({id, score, distance: 1 - similarity}))
FormatResult(result) ==
  [id |-> result.id, score |-> result.similarity,
   distance |-> Scale - result.similarity]

SearchResults(queryVector, k) ==
  LET topK == partialSort(Similarities(normalizeVector(queryVector)), k)
  IN [i \in 1..Len(topK) |-> FormatResult(topK[i])]

\* Variant: search does not look at the query's length.
SearchPrecheckNoDimension(queryVector) ==
  IF ~isInitialized THEN Error("NotInitialized") ELSE NoError

\* The two checks search makes before its scan.
SearchPrecheck(queryVector) ==
  IF ~isInitialized THEN Error("NotInitialized")
  ELSE IF WrongDimension(queryVector) THEN Error("DimensionMismatch")
  ELSE NoError

\* Variant: the sort runs on this.metadata itself, which is left in ranking
\* order.
SearchSortingInPlace(queryVector, k) ==
  /\ ret = NoCall
  /\ ret' = IF SearchPrecheck(queryVector) # NoError
            THEN Call("search", <<queryVector, k>>,
                      SearchPrecheck(queryVector), <<>>)
            ELSE Call("search", <<queryVector, k>>, NoError,
                      SearchResults(queryVector, k))
  /\ metadata' =
       IF SearchPrecheck(queryVector) # NoError THEN metadata
       ELSE LET all == partialSort(Similarities(normalizeVector(queryVector)),
                                   Len(metadata))
            IN [p \in 1..Len(all) |-> metadata[all[p].index + 1]]
  /\ UNCHANGED <<vectors, normalizedVectors, dimension, isInitialized, histVars>>

Search(queryVector, k) ==
  /\ ret = NoCall
  /\ ret' = IF SearchPrecheck(queryVector) # NoError
            THEN Call("search", <<queryVector, k>>,
                      SearchPrecheck(queryVector), <<>>)
            ELSE Call("search", <<queryVector, k>>, NoError,
                      SearchResults(queryVector, k))
  /\ UNCHANGED <<storeVars, histVars>>

(* --------------------------- removeVector / updateVector -------------- *)

\* Variant: removeVector leaves the index fields as they were.
ReindexNone(meta, pos) == meta

\* for (let i = index; i < this.metadata.length; i++) this.metadata[i].index = i
Reindex(meta, pos) ==
  [p \in 1..Len(meta) |->
     IF p >= pos THEN [meta[p] EXCEPT !.index = p - 1] ELSE meta[p]]

RemoveVector(queryId) ==
  /\ ret = NoCall
  /\ LET pos == FindIndex(metadata, queryId)
     IN IF pos = 0
        THEN /\ ret' = Call("removeVector", <<queryId>>, Error("NotFound"), <<>>)
             /\ UNCHANGED <<storeVars, histVars>>
        ELSE /\ vectors' = Splice(vectors, pos)
             /\ normalizedVectors' = Splice(normalizedVectors, pos)
             /\ metadata' = Reindex(Splice(metadata, pos), pos)
             /\ removed' = removed + 1
             /\ ret' = Call("removeVector", <<queryId>>, NoError, <<>>)
             /\ UNCHANGED <<dimension, isInitialized, added, discarded>>

\* Variant: updateVector forgets the cached normalized vector.
ReplaceNormalizedStale(normalized, pos, newVector) == normalized

\* Variant: updateVector overwrites the cached normalized vector of every
\* record.
ReplaceNormalizedAll(normalized, pos, newVector) ==
  [p \in 1..Len(normalized) |-> normalizeVector(newVector)]

\* this.normalizedVectors[index] = this.normalizeVector(newVector)
ReplaceNormalized(normalized, pos, newVector) ==
  [normalized EXCEPT ![pos] = normalizeVector(newVector)]

\* Variant: updateVector does not look at the new vector's length.
UpdateVectorUnchecked(queryId, newVector) ==
  /\ ret = NoCall
  /\ LET pos == FindIndex(metadata, queryId)
     IN IF pos = 0
        THEN /\ ret' = Call("updateVector", <<queryId, newVector>>,
                            Error("NotFound"), <<>>)
             /\ UNCHANGED <<storeVars, histVars>>
        ELSE /\ vectors' = [vectors EXCEPT ![pos] = newVector]
             /\ normalizedVectors' =
                  [normalizedVectors EXCEPT ![pos] = normalizeVector(newVector)]
             /\ metadata' =
                  [metadata EXCEPT ![pos].norm = vectorNorm(newVector)]
             /\ ret' = Call("updateVector", <<queryId, newVector>>, NoError, <<>>)
             /\ UNCHANGED <<dimension, isInitialized, histVars>>

UpdateVector(queryId, newVector) ==
  /\ ret = NoCall
  /\ LET pos == FindIndex(metadata, queryId)
     IN IF pos = 0
        THEN /\ ret' = Call("updateVector", <<queryId, newVector>>,
                            Error("NotFound"), <<>>)
             /\ UNCHANGED <<storeVars, histVars>>
        ELSE IF WrongDimension(newVector)
        THEN /\ ret' = Call("updateVector", <<queryId, newVector>>,
                            Error("DimensionMismatch"), <<>>)
             /\ UNCHANGED <<storeVars, histVars>>
        ELSE /\ vectors' = [vectors EXCEPT ![pos] = newVector]
             /\ normalizedVectors' =
                  ReplaceNormalized(normalizedVectors, pos, newVector)
             /\ metadata' =
                  [metadata EXCEPT ![pos].norm = vectorNorm(newVector)]
             /\ ret' = Call("updateVector", <<queryId, newVector>>, NoError, <<>>)
             /\ UNCHANGED <<dimension, isInitialized, histVars>>

(* --------------------------- getInfo ---------------------------------- *)

\* The fields of getInfo() that depend on the store's state.
GetInfo ==
  [dimension     |-> dimension,
   vectorCount   |-> Len(vectors),
   activeVectors |-> Len(metadata),
   isInitialized |-> isInitialized]

GetInfoCall ==
  /\ ret = NoCall
  /\ ret' = Call("getInfo", <<>>, NoError, <<GetInfo>>)
  /\ UNCHANGED <<storeVars, histVars>>

(* --------------------------- the caller ------------------------------- *)

\* The caller takes the settled promise of the last call.
Return ==
  /\ ret # NoCall
  /\ ret' = NoCall
  /\ UNCHANGED <<storeVars, histVars>>

(* ====================================================================== *)
(*  QueryRAG (src/dist/rag/query-rag.js) with its embedder                 *)
(*  (src/src/embedding/e5-embedder.ts) and its catalogue                   *)
(*  (src/src/data/query-data.ts).                                          *)
(*                                                                         *)
(*  Calls.  The host serializes the calls to QueryRAG: a call is made when *)
(*  none is in flight (pc = "idle").  A call is suspended at its awaits;   *)
(*  one action runs it from one await of a VectorStore method to the next, *)
(*  and the VectorStore method itself is the store's action, whose result  *)
(*  the call takes from ret when it resumes.                               *)
(*                                                                         *)
(*  Environment.  The embedding model is outside the repository: it may    *)
(*  fail to load, a call of it may fail, and what it returns is a function *)
(*  of the text it is given and of the configured model's output length.   *)
(*  The data file is read and written without failure; a missing or        *)
(*  unreadable file is an empty one.                                       *)
(* ====================================================================== *)

(* --------------------------- texts ------------------------------------ *)

\* A string is the sequence of its characters.
EmptyString == <<>>

\* String.prototype.trim on a string with leading blanks
RECURSIVE TrimStart(_)
TrimStart(text) ==
  IF text # <<>> /\ Head(text) = " " THEN TrimStart(Tail(text)) ELSE text

\* ... and with trailing blanks
RECURSIVE TrimEnd(_)
TrimEnd(text) ==
  IF text # <<>> /\ text[Len(text)] = " "
  THEN TrimEnd(SubSeq(text, 1, Len(text) - 1))
  ELSE text

\* String.prototype.trim
Trim(text) == TrimEnd(TrimStart(text))

\* !text for a string: the empty string is falsy
Falsy(text) == text = EmptyString

(* --------------------------- E5Embedder ------------------------------- *)

QueryPrefix == <<"query: ">>
PassagePrefix == <<"passage: ">>

\* getDimension(): the constant the embedder declares (1024 in the source,
\* EmbeddingDimension here).
getDimension == EmbeddingDimension

\* A number for each character and prefix, and for a text the number its
\* characters spell.
CharCode(c) ==
  CASE c = " " -> 1
    [] c = "x" -> 2
    [] c = "y" -> 3
    [] c = "query: " -> 4
    [] c = "passage: " -> 5

RECURSIVE TextCode(_)
TextCode(text) ==
  IF text = <<>> THEN 0
  ELSE CharCode(text[Len(text)])
       + 6 * TextCode(SubSeq(text, 1, Len(text) - 1))

\* this.model(prefixedText, {pooling: 'mean', normalize: true}): a vector of
\* the model's output length that different texts do not share.
ModelOutput(prefixedText) ==
  [i \in 1..modelDimension |->
     IF i = 1 THEN TextCode(prefixedText) ELSE Scale]

\* embed(text, prefix); modelFails: the model call throws.
embed(text, prefix, modelFails) ==
  IF ~embedderIsInitialized
  THEN [err |-> Error("EmbedderNotInitialized"), out |-> <<>>]
  ELSE IF Falsy(text)
  THEN [err |-> Error("InvalidText"), out |-> <<>>]
  ELSE IF modelFails
  THEN [err |-> Error("EmbeddingFailed"), out |-> <<>>]
  ELSE [err |-> NoError, out |-> ModelOutput(prefix \o Trim(text))]

RECURSIVE embedBatchLoop(_, _, _, _)
\* The loop of embedBatch over texts[i..]; failAt is the position of the
\* text at which the model call throws (0: at none).
embedBatchLoop(texts, prefix, failAt, i) ==
  IF i > Len(texts) THEN [err |-> NoError, out |-> <<>>]
  ELSE LET first == embed(texts[i], prefix, failAt = i)
       IN IF first.err # NoError THEN first
          ELSE LET rest == embedBatchLoop(texts, prefix, failAt, i + 1)
               IN IF rest.err # NoError THEN rest
                  ELSE [err |-> NoError, out |-> <<first.out>> \o rest.out]

embedBatch(texts, prefix, failAt) == embedBatchLoop(texts, prefix, failAt, 1)

embedQuery(query, modelFails) == embed(query, QueryPrefix, modelFails)

\* Variant: embedDocument with the prefix of queries.
embedDocumentAsQuery(document, modelFails) ==
  embed(document, QueryPrefix, modelFails)

embedDocument(document, modelFails) == embed(document, PassagePrefix, modelFails)

(* --------------------------- QueryData -------------------------------- *)

\* The ids randomUUID() hands out, in order: all different, and different
\* from the ids in the data file.
UuidPool == <<"u1", "u2", "u3", "u4">>
FreshIds == SubSeq(UuidPool, 1, MaxQueries)

\* this.queries.has(queryId)
Has(qs, queryId) == \E p \in 1..Len(qs) : qs[p].id = queryId

\* Variant: a lookup that finds no record returns the first record.
getQueryByIdOrFirst(queryId) ==
  IF Has(queries, queryId)
  THEN <<queries[CHOOSE p \in 1..Len(queries) : queries[p].id = queryId]>>
  ELSE SubSeq(queries, 1, 1)

\* this.queries.get(queryId) || null; <<>> is null, <<query>> is a record
getQueryById(queryId) ==
  IF Has(queries, queryId)
  THEN <<queries[CHOOSE p \in 1..Len(queries) : queries[p].id = queryId]>>
  ELSE <<>>

\* Array.from(this.queries.values())
getAllQueries == queries

\* The record QueryData.addQuery builds.
NewQuery(queryId, queryInfo) ==
  [id          |-> queryId,
   description |-> Trim(queryInfo.description),
   sqlScript   |-> Trim(queryInfo.sqlScript),
   metadata    |-> {"addedAt"}]

\* updates.field ?? existing.field, for updates a record with some of the
\* fields
Coalesce(updates, existing, field) ==
  IF field \in DOMAIN updates THEN updates[field] ELSE existing[field]

\* The record QueryData.updateQuery builds.
UpdatedQuery(existingQuery, updates) ==
  [id          |-> existingQuery.id,
   description |-> Coalesce(updates, existingQuery, "description"),
   sqlScript   |-> Coalesce(updates, existingQuery, "sqlScript"),
   metadata    |-> Coalesce(updates, existingQuery, "metadata")]

\* this.queries.set(queryId, updatedQuery) for a key the Map has: the entry
\* keeps its place
SetExisting(qs, queryId, query) ==
  [p \in 1..Len(qs) |-> IF qs[p].id = queryId THEN query ELSE qs[p]]

\* Variant: a delete that leaves the Map as it is.
DeleteNothing(qs, queryId) == qs

\* this.queries.delete(queryId)
Delete(qs, queryId) ==
  LET keep == {p \in 1..Len(qs) : qs[p].id # queryId}
      Nth(n) == CHOOSE p \in keep : Cardinality({q \in keep : q <= p}) = n
  IN [n \in 1..Cardinality(keep) |-> qs[Nth(n)]]

(* --------------------------- QueryRAG --------------------------------- *)

\* A settled QueryRAG call: calls lists the methods of its collaborators
\* that it called, in order.
RagCall(op, args, err, out, calls) ==
  [op |-> op, args |-> args, err |-> err, out |-> out, calls |-> calls]

NoRagCall == RagCall("none", <<>>, NoError, <<>>, <<>>)

\* The call in flight settles.
Settle(op, args, err, out, calls) ==
  /\ pc' = "idle"
  /\ frame' = [calls |-> <<>>]
  /\ ragRet' = RagCall(op, args, err, out, calls)

\* The call in flight is suspended at the await of a VectorStore method.
Suspend(at, locals) ==
  /\ pc' = at
  /\ frame' = locals
  /\ UNCHANGED ragRet

\* A suspended call resumes by calling a method of the VectorStore (the
\* store's action, conjoined with this) and awaits it.
Resume(from, to, method) ==
  /\ pc = from
  /\ pc' = to
  /\ frame' = [frame EXCEPT !.calls = Append(@, method)]
  /\ UNCHANGED <<queryRagIsInitialized, embedderIsInitialized, queries, disk,
                 modelDimension, uuids, ragRet, lifecycle>>

storeAndRet == <<storeVars, histVars, ret>>

(* QueryRAG.initialize *)

\* Variant: initialize without its early return.
RagInitializeAlways(loadFails) ==
  /\ pc = "idle"
  /\ IF ~embedderIsInitialized /\ loadFails
     THEN /\ Settle("initialize", <<>>, Error("ModelLoadFailed"), <<>>,
                    <<"embedder.initialize">>)
          /\ UNCHANGED <<embedderIsInitialized, queries>>
     ELSE /\ embedderIsInitialized' = TRUE
          /\ queries' = disk
          /\ Suspend("initialize.store",
                     [calls |-> <<"embedder.initialize", "queryData.load">>])
  /\ UNCHANGED <<queryRagIsInitialized, disk, modelDimension, uuids,
                 lifecycle, storeAndRet>>

\* From the call to the await of vectorStore.initialize; loadFails: the
\* model cannot be loaded.
RagInitialize(loadFails) ==
  /\ pc = "idle"
  /\ IF queryRagIsInitialized
     THEN /\ Settle("initialize", <<>>, NoError, <<>>, <<>>)
          /\ UNCHANGED <<embedderIsInitialized, queries>>
     ELSE IF ~embedderIsInitialized /\ loadFails
     THEN /\ Settle("initialize", <<>>, Error("ModelLoadFailed"), <<>>,
                    <<"embedder.initialize">>)
          /\ UNCHANGED <<embedderIsInitialized, queries>>
     ELSE /\ embedderIsInitialized' = TRUE
          /\ queries' = disk
          /\ Suspend("initialize.store",
                     [calls |-> <<"embedder.initialize", "queryData.load">>])
  /\ UNCHANGED <<queryRagIsInitialized, disk, modelDimension, uuids,
                 lifecycle, storeAndRet>>

\* await this.vectorStore.initialize(this.embedder.getDimension())
RagInitializeStore ==
  /\ Resume("initialize.store", "initialize.index", "vectorStore.initialize")
  /\ Initialize(getDimension)

\* indexQueries up to the await of vectorStore.addVectors; failAt: the
\* position of the description at which the model call throws (0: none).
RagIndexQueries(failAt) ==
  /\ pc = "initialize.index"
  /\ ret' = NoCall
  /\ IF getAllQueries = <<>>
     THEN /\ failAt = 0
          /\ queryRagIsInitialized' = TRUE
          /\ lifecycle' = "initialized"
          /\ Settle("initialize", <<>>, NoError, <<>>, frame.calls)
     ELSE LET descriptions ==
                [p \in 1..Len(getAllQueries) |-> getAllQueries[p].description]
              embeddings == embedBatch(descriptions, PassagePrefix, failAt)
              calls == Append(frame.calls, "embedder.embedBatch")
          IN IF embeddings.err # NoError
             THEN /\ Settle("initialize", <<>>, embeddings.err, <<>>, calls)
                  /\ UNCHANGED <<queryRagIsInitialized, lifecycle>>
             ELSE /\ Suspend("initialize.add",
                             [calls      |-> calls,
                              embeddings |-> embeddings.out,
                              queryIds   |-> [p \in 1..Len(getAllQueries) |->
                                                getAllQueries[p].id]])
                  /\ UNCHANGED <<queryRagIsInitialized, lifecycle>>
  /\ UNCHANGED <<embedderIsInitialized, queries, disk, modelDimension, uuids,
                 storeVars, histVars>>

\* await this.vectorStore.addVectors(embeddings, queries.map(q => q.id))
RagIndexAdd ==
  /\ Resume("initialize.add", "initialize.end", "vectorStore.addVectors")
  /\ AddVectors(frame.embeddings, frame.queryIds)

\* After indexQueries: this.isInitialized = true, or the error rethrown.
RagInitializeEnd ==
  /\ pc = "initialize.end"
  /\ ret' = NoCall
  /\ queryRagIsInitialized' = (ret.err = NoError)
  /\ lifecycle' = IF ret.err = NoError THEN "initialized" ELSE lifecycle
  /\ Settle("initialize", <<>>, ret.err, <<>>, frame.calls)
  /\ UNCHANGED <<embedderIsInitialized, queries, disk, modelDimension, uuids,
                 storeVars, histVars>>

(* QueryRAG.searchSimilarQueries. The errors caught inside the try blocks
   of searchSimilarQueries, addQuery, removeQuery and updateQuery are thrown
   again with a prefix in front of their message: the kind of the error
   stays that of the first error. *)

\* searchResults.map(result => ...): ApplicationSource and Module, which no
\* record made by QueryData.addQuery has, are left out.
MapResults(searchResults) ==
  [p \in 1..Len(searchResults) |->
     LET queryInfo == getQueryById(searchResults[p].id)
     IN [id          |-> searchResults[p].id,
         similarity  |-> searchResults[p].score,
         description |-> IF queryInfo = <<>> THEN EmptyString
                         ELSE queryInfo[1].description,
         sqlScript   |-> IF queryInfo = <<>> THEN EmptyString
                         ELSE queryInfo[1].sqlScript,
         metadata    |-> IF queryInfo = <<>> THEN {}
                         ELSE queryInfo[1].metadata]]

RagSearch(naturalLanguageQuery, topK, modelFails) ==
  /\ pc = "idle"
  /\ LET args == <<naturalLanguageQuery, topK>>
         queryEmbedding == embedQuery(naturalLanguageQuery, modelFails)
         calls == <<"embedder.embedQuery">>
     IN IF ~queryRagIsInitialized
        THEN Settle("searchSimilarQueries", args, Error("NotInitialized"),
                    <<>>, <<>>)
        ELSE IF Falsy(naturalLanguageQuery)
        THEN Settle("searchSimilarQueries", args, Error("InvalidArgument"),
                    <<>>, <<>>)
        ELSE IF queryEmbedding.err # NoError
        THEN Settle("searchSimilarQueries", args, queryEmbedding.err, <<>>,
                    calls)
        ELSE Suspend("search.store",
                     [calls |-> calls, args |-> args,
                      queryEmbedding |-> queryEmbedding.out])
  /\ UNCHANGED <<queryRagIsInitialized, embedderIsInitialized, queries, disk,
                 modelDimension, uuids, lifecycle, storeAndRet>>

\* await this.vectorStore.search(queryEmbedding, topK)
RagSearchStore ==
  /\ Resume("search.store", "search.end", "vectorStore.search")
  /\ Search(frame.queryEmbedding, frame.args[2])

RagSearchEnd ==
  /\ pc = "search.end"
  /\ ret' = NoCall
  /\ IF ret.err # NoError
     THEN Settle("searchSimilarQueries", frame.args, ret.err, <<>>, frame.calls)
     ELSE Settle("searchSimilarQueries", frame.args, NoError,
                 MapResults(ret.out), frame.calls)
  /\ UNCHANGED <<queryRagIsInitialized, embedderIsInitialized, queries, disk,
                 modelDimension, uuids, lifecycle, storeVars, histVars>>

(* QueryRAG.addQuery *)

\* Variant: addQuery embeds the description before it persists the record.
RagAddQueryEmbedFirst(queryInfo, modelFails) ==
  /\ pc = "idle"
  /\ IF Falsy(queryInfo.description) \/ Falsy(queryInfo.sqlScript)
     THEN /\ Settle("addQuery", <<queryInfo>>, Error("InvalidArgument"), <<>>,
                    <<>>)
          /\ UNCHANGED <<queries, disk, uuids>>
     ELSE LET queryId == FreshIds[uuids + 1]
              embedding == embedDocument(queryInfo.description, modelFails)
          IN /\ uuids < MaxQueries
             /\ IF embedding.err # NoError
                THEN /\ Settle("addQuery", <<queryInfo>>, embedding.err, <<>>,
                               <<"embedder.embedDocument">>)
                     /\ UNCHANGED <<queries, disk, uuids>>
                ELSE /\ uuids' = uuids + 1
                     /\ queries' = Append(queries, NewQuery(queryId, queryInfo))
                     /\ disk' = queries'
                     /\ Suspend("addQuery.store",
                                [calls |-> <<"embedder.embedDocument",
                                             "queryData.addQuery">>,
                                 args |-> <<queryInfo>>,
                                 queryId |-> queryId,
                                 embedding |-> embedding.out])
  /\ UNCHANGED <<queryRagIsInitialized, embedderIsInitialized, modelDimension,
                 lifecycle, storeAndRet>>

RagAddQuery(queryInfo, modelFails) ==
  /\ pc = "idle"
  /\ IF Falsy(queryInfo.description) \/ Falsy(queryInfo.sqlScript)
     THEN /\ Settle("addQuery", <<queryInfo>>, Error("InvalidArgument"), <<>>,
                    <<>>)
          /\ UNCHANGED <<queries, disk, uuids>>
     ELSE LET queryId == FreshIds[uuids + 1]
              embedding == embedDocument(queryInfo.description, modelFails)
              calls == <<"queryData.addQuery", "embedder.embedDocument">>
          IN /\ uuids < MaxQueries
             /\ uuids' = uuids + 1
             /\ queries' = Append(queries, NewQuery(queryId, queryInfo))
             /\ disk' = queries'
             /\ IF embedding.err # NoError
                THEN Settle("addQuery", <<queryInfo>>, embedding.err, <<>>,
                            calls)
                ELSE Suspend("addQuery.store",
                             [calls |-> calls, args |-> <<queryInfo>>,
                              queryId |-> queryId,
                              embedding |-> embedding.out])
  /\ UNCHANGED <<queryRagIsInitialized, embedderIsInitialized, modelDimension,
                 lifecycle, storeAndRet>>

\* await this.vectorStore.addVectors([embedding], [queryId])
RagAddQueryStore ==
  /\ Resume("addQuery.store", "addQuery.end", "vectorStore.addVectors")
  /\ AddVectors(<<frame.embedding>>, <<frame.queryId>>)

RagAddQueryEnd ==
  /\ pc = "addQuery.end"
  /\ ret' = NoCall
  /\ Settle("addQuery", frame.args, ret.err,
            IF ret.err = NoError THEN <<frame.queryId>> ELSE <<>>, frame.calls)
  /\ UNCHANGED <<queryRagIsInitialized, embedderIsInitialized, queries, disk,
                 modelDimension, uuids, lifecycle, storeVars, histVars>>

(* QueryRAG.removeQuery *)

RagRemoveQuery(queryId) ==
  /\ pc = "idle"
  /\ IF ~Has(queries, queryId)
     THEN /\ Settle("removeQuery", <<queryId>>, Error("QueryNotFound"), <<>>,
                    <<"queryData.removeQuery">>)
          /\ UNCHANGED <<queries, disk>>
     ELSE /\ queries' = Delete(queries, queryId)
          /\ disk' = queries'
          /\ Suspend("removeQuery.store",
                     [calls |-> <<"queryData.removeQuery">>,
                      args |-> <<queryId>>])
  /\ UNCHANGED <<queryRagIsInitialized, embedderIsInitialized, modelDimension,
                 uuids, lifecycle, storeAndRet>>

\* await this.vectorStore.removeVector(queryId)
RagRemoveQueryStore ==
  /\ Resume("removeQuery.store", "removeQuery.end", "vectorStore.removeVector")
  /\ RemoveVector(frame.args[1])

RagRemoveQueryEnd ==
  /\ pc = "removeQuery.end"
  /\ ret' = NoCall
  /\ Settle("removeQuery", frame.args, ret.err, <<>>, frame.calls)
  /\ UNCHANGED <<queryRagIsInitialized, embedderIsInitialized, queries, disk,
                 modelDimension, uuids, lifecycle, storeVars, histVars>>

(* QueryRAG.updateQuery *)

RagUpdateQuery(queryId, updates, modelFails) ==
  /\ pc = "idle"
  /\ IF ~Has(queries, queryId)
     THEN /\ Settle("updateQuery", <<queryId, updates>>,
                    Error("QueryNotFound"), <<>>, <<"queryData.updateQuery">>)
          /\ UNCHANGED <<queries, disk>>
     ELSE /\ queries' = SetExisting(queries, queryId,
                          UpdatedQuery(getQueryById(queryId)[1], updates))
          /\ disk' = queries'
          /\ IF "description" \notin DOMAIN updates
                \/ Falsy(updates.description)
             THEN Settle("updateQuery", <<queryId, updates>>, NoError, <<>>,
                         <<"queryData.updateQuery">>)
             ELSE LET embedding == embedDocument(updates.description, modelFails)
                      calls == <<"queryData.updateQuery",
                                 "embedder.embedDocument">>
                  IN IF embedding.err # NoError
                     THEN Settle("updateQuery", <<queryId, updates>>,
                                 embedding.err, <<>>, calls)
                     ELSE Suspend("updateQuery.store",
                                  [calls |-> calls,
                                   args |-> <<queryId, updates>>,
                                   embedding |-> embedding.out])
  /\ UNCHANGED <<queryRagIsInitialized, embedderIsInitialized, modelDimension,
                 uuids, lifecycle, storeAndRet>>

\* await this.vectorStore.updateVector(queryId, embedding)
RagUpdateQueryStore ==
  /\ Resume("updateQuery.store", "updateQuery.end", "vectorStore.updateVector")
  /\ UpdateVector(frame.args[1], frame.embedding)

RagUpdateQueryEnd ==
  /\ pc = "updateQuery.end"
  /\ ret' = NoCall
  /\ Settle("updateQuery", frame.args, ret.err, <<>>, frame.calls)
  /\ UNCHANGED <<queryRagIsInitialized, embedderIsInitialized, queries, disk,
                 modelDimension, uuids, lifecycle, storeVars, histVars>>

(* QueryRAG.getStats *)

\* getModelInfo(), without the model's name
getModelInfo ==
  [dimension |-> getDimension, isInitialized |-> embedderIsInitialized]

\* this.queries.size
getQueryCount == Len(queries)

getStats ==
  [totalQueries    |-> getQueryCount,
   embeddingModel  |-> getModelInfo,
   vectorStoreInfo |-> GetInfo,
   isInitialized   |-> queryRagIsInitialized]

(* QueryRAG.close *)

\* await this.embedder.cleanup()
RagClose ==
  /\ pc = "idle"
  /\ embedderIsInitialized' = FALSE
  /\ lifecycle' = IF lifecycle = "new" THEN "new" ELSE "closed"
  /\ Suspend("close.store", [calls |-> <<"embedder.cleanup">>])
  /\ UNCHANGED <<queryRagIsInitialized, queries, disk, modelDimension, uuids,
                 storeAndRet>>

\* await this.vectorStore.cleanup()
RagCloseStore ==
  /\ pc = "close.store"
  /\ pc' = "close.end"
  /\ frame' = [frame EXCEPT !.calls = Append(@, "vectorStore.cleanup")]
  /\ Cleanup
  /\ UNCHANGED <<queryRagIsInitialized, embedderIsInitialized, queries, disk,
                 modelDimension, uuids, ragRet, lifecycle>>

\* Variant: close leaves the records in the Map.
RagCloseEndKeepsCatalogue ==
  /\ pc = "close.end"
  /\ ret' = NoCall
  /\ disk' = IF queries # <<>> THEN queries ELSE disk
  /\ queryRagIsInitialized' = FALSE
  /\ Settle("close", <<>>, NoError, <<>>, Append(frame.calls, "queryData.close"))
  /\ UNCHANGED <<queries, embedderIsInitialized, modelDimension, uuids,
                 lifecycle, storeVars, histVars>>

\* Variant: close leaves QueryRAG's flag set.
RagCloseEndKeepsFlag ==
  /\ pc = "close.end"
  /\ ret' = NoCall
  /\ disk' = IF queries # <<>> THEN queries ELSE disk
  /\ queries' = <<>>
  /\ Settle("close", <<>>, NoError, <<>>, Append(frame.calls, "queryData.close"))
  /\ UNCHANGED <<queryRagIsInitialized, embedderIsInitialized, modelDimension,
                 uuids, lifecycle, storeVars, histVars>>

\* await this.queryData.close(); this.isInitialized = false
RagCloseEnd ==
  /\ pc = "close.end"
  /\ ret' = NoCall
  /\ disk' = IF queries # <<>> THEN queries ELSE disk
  /\ queries' = <<>>
  /\ queryRagIsInitialized' = FALSE
  /\ Settle("close", <<>>, NoError, <<>>, Append(frame.calls, "queryData.close"))
  /\ UNCHANGED <<embedderIsInitialized, modelDimension, uuids, lifecycle,
                 storeVars, histVars>>

(* --------------------------- specification ---------------------------- *)

Init ==
  /\ vectors = <<>>
  /\ normalizedVectors = <<>>
  /\ metadata = <<>>
  /\ dimension = <<>>
  /\ isInitialized = FALSE
  /\ ret = NoCall
  /\ added = 0
  /\ removed = 0
  /\ discarded = 0
  /\ queryRagIsInitialized = FALSE
  /\ embedderIsInitialized = FALSE
  /\ queries = <<>>
  /\ disk = <<>>
  /\ modelDimension = 0
  /\ uuids = 0
  /\ pc = "idle"
  /\ frame = [calls |-> <<>>]
  /\ ragRet = NoRagCall
  /\ lifecycle = "new"
  /\ callers = <<>>
  /\ inspector = <<>>
  /\ requests = <<>>

\* The store's caller makes any call with any input; no QueryRAG call is
\* in flight.
Next ==
  \/ \E d \in Dims : Initialize(d) /\ UNCHANGED layerVars
  \/ \E args \in AddInputs : AddVectors(args[1], args[2]) /\ UNCHANGED layerVars
  \/ \E queryVector \in Queries, k \in Ks :
       Search(queryVector, k) /\ UNCHANGED layerVars
  \/ \E queryId \in Ids : RemoveVector(queryId) /\ UNCHANGED layerVars
  \/ \E queryId \in Ids, newVector \in UpdateInputs :
       UpdateVector(queryId, newVector) /\ UNCHANGED layerVars
  \/ GetInfoCall /\ UNCHANGED layerVars
  \/ Cleanup /\ UNCHANGED layerVars
  \/ Return /\ UNCHANGED layerVars

Spec == Init /\ [][Next]_vars

(* The retrieval orchestrator: one QueryRAG with its embedder, its catalogue
   and its vector store, called by one caller at a time. *)

\* The records of the data file at the start: none, one or two.
RecordA ==
  [id |-> "a", description |-> <<"x">>, sqlScript |-> <<"s">>,
   metadata |-> {"addedAt"}]
RecordB ==
  [id |-> "b", description |-> <<"y">>, sqlScript |-> <<"s">>,
   metadata |-> {"addedAt"}]
Catalogues == {<<>>, <<RecordA>>, <<RecordA, RecordB>>}

\* The configured model returns vectors of the declared length, or of
\* another length.
ModelDimensions == {getDimension, getDimension + 1}

SearchTexts == {<<"x">>, EmptyString}
TopKs == {1, MaxK}
QueryInfos ==
  {[description |-> <<" ", "y">>, sqlScript |-> <<"s">>],
   [description |-> EmptyString, sqlScript |-> <<"s">>]}
QueryIds == {"a", FreshIds[1]}
Updates ==
  {[description |-> <<"y">>], [description |-> EmptyString],
   [sqlScript |-> <<"t">>]}

InitRAG ==
  /\ vectors = <<>>
  /\ normalizedVectors = <<>>
  /\ metadata = <<>>
  /\ dimension = <<>>
  /\ isInitialized = FALSE
  /\ ret = NoCall
  /\ added = 0
  /\ removed = 0
  /\ discarded = 0
  /\ queryRagIsInitialized = FALSE
  /\ embedderIsInitialized = FALSE
  /\ queries = <<>>
  /\ disk \in Catalogues
  /\ modelDimension \in ModelDimensions
  /\ uuids = 0
  /\ pc = "idle"
  /\ frame = [calls |-> <<>>]
  /\ ragRet = NoRagCall
  /\ lifecycle = "new"
  /\ callers = <<>>
  /\ inspector = <<>>
  /\ requests = <<>>

\* The step is one of a QueryRAG whose calls do not overlap and are not made
\* through McpTools.
Serial == UNCHANGED <<overlapVars, toolVars>>

NextRAG ==
  \/ \E loadFails \in BOOLEAN : RagInitialize(loadFails) /\ Serial
  \/ RagInitializeStore /\ Serial
  \/ \E failAt \in 0..Len(queries) : RagIndexQueries(failAt) /\ Serial
  \/ RagIndexAdd /\ Serial
  \/ RagInitializeEnd /\ Serial
  \/ \E naturalLanguageQuery \in SearchTexts, topK \in TopKs,
        modelFails \in BOOLEAN :
       RagSearch(naturalLanguageQuery, topK, modelFails) /\ Serial
  \/ RagSearchStore /\ Serial
  \/ RagSearchEnd /\ Serial
  \/ \E queryInfo \in QueryInfos, modelFails \in BOOLEAN :
       RagAddQuery(queryInfo, modelFails) /\ Serial
  \/ RagAddQueryStore /\ Serial
  \/ RagAddQueryEnd /\ Serial
  \/ \E queryId \in QueryIds : RagRemoveQuery(queryId) /\ Serial
  \/ RagRemoveQueryStore /\ Serial
  \/ RagRemoveQueryEnd /\ Serial
  \/ \E queryId \in QueryIds, updates \in Updates, modelFails \in BOOLEAN :
       RagUpdateQuery(queryId, updates, modelFails) /\ Serial
  \/ RagUpdateQueryStore /\ Serial
  \/ RagUpdateQueryEnd /\ Serial
  \/ RagClose /\ Serial
  \/ RagCloseStore /\ Serial
  \/ RagCloseEnd /\ Serial

SpecRAG == InitRAG /\ [][NextRAG]_vars

(* The retrieval orchestrator under calls that all succeed: the first call
   is initialize, close is not called, and a call that would fail is not
   made. *)

\* The step does not settle a call with an error, neither of QueryRAG nor of
\* the store.
Succeeds ==
  /\ ret'.err = NoError
  /\ pc' = "idle" => ragRet'.err = NoError

NextSuccessful ==
  \/ \E loadFails \in BOOLEAN : RagInitialize(loadFails) /\ Succeeds /\ Serial
  \/ RagInitializeStore /\ Succeeds /\ Serial
  \/ \E failAt \in 0..Len(queries) : RagIndexQueries(failAt) /\ Succeeds /\ Serial
  \/ RagIndexAdd /\ Succeeds /\ Serial
  \/ RagInitializeEnd /\ Succeeds /\ Serial
  \/ \E naturalLanguageQuery \in SearchTexts, topK \in TopKs,
        modelFails \in BOOLEAN :
       /\ lifecycle = "initialized"
       /\ RagSearch(naturalLanguageQuery, topK, modelFails)
       /\ Succeeds /\ Serial
  \/ RagSearchStore /\ Succeeds /\ Serial
  \/ RagSearchEnd /\ Succeeds /\ Serial
  \/ \E queryInfo \in QueryInfos, modelFails \in BOOLEAN :
       /\ lifecycle = "initialized"
       /\ RagAddQuery(queryInfo, modelFails)
       /\ Succeeds /\ Serial
  \/ RagAddQueryStore /\ Succeeds /\ Serial
  \/ RagAddQueryEnd /\ Succeeds /\ Serial
  \/ \E queryId \in QueryIds :
       /\ lifecycle = "initialized"
       /\ RagRemoveQuery(queryId)
       /\ Succeeds /\ Serial
  \/ RagRemoveQueryStore /\ Succeeds /\ Serial
  \/ RagRemoveQueryEnd /\ Succeeds /\ Serial
  \/ \E queryId \in QueryIds, updates \in Updates, modelFails \in BOOLEAN :
       /\ lifecycle = "initialized"
       /\ RagUpdateQuery(queryId, updates, modelFails)
       /\ Succeeds /\ Serial
  \/ RagUpdateQueryStore /\ Succeeds /\ Serial
  \/ RagUpdateQueryEnd /\ Succeeds /\ Serial

SpecSuccessful == InitRAG /\ [][NextSuccessful]_vars

(* Overlapping calls of QueryRAG.initialize and QueryRAG.updateQuery: each
   of two callers makes one call at a time, and a call is suspended at
   every await that leaves the host: the load of the model, the read and
   the write of the data file, the call of the model.  A continuation that
   runs between two such awaits touches the shared state in one step; the
   methods of the VectorStore are called at the end of such a step and
   their promise is taken by the caller's next step. *)

Callers == {1, 2}

\* The descriptions the overlapping updateQuery calls carry, for the record
\* of the data file.
OverlapUpdates == {[description |-> <<"x">>], [description |-> <<"y">>]}

serialVars == <<pc, frame, ragRet, lifecycle, uuids, modelDimension>>

\* The call of caller c settles.
CallerSettles(c, op, args, err) ==
  callers' = [callers EXCEPT ![c] = [pc    |-> "idle",
                                     frame |-> [args |-> args],
                                     ret   |-> RagCall(op, args, err, <<>>,
                                                       <<>>)]]

\* The call of caller c is suspended at an await.
CallerAwaits(c, at, locals) ==
  callers' = [callers EXCEPT ![c].pc = at, ![c].frame = locals]

\* QueryRAG.initialize up to its first await: the load of the model, or, with
\* the model loaded, the read of the data file.
InitializeCalled(c) ==
  /\ callers[c].pc = "idle"
  /\ IF queryRagIsInitialized
     THEN CallerSettles(c, "initialize", <<>>, NoError)
     ELSE IF embedderIsInitialized
     THEN CallerAwaits(c, "initialize.read", [args |-> <<>>])
     ELSE CallerAwaits(c, "initialize.load", [args |-> <<>>])
  /\ UNCHANGED <<queryRagIsInitialized, embedderIsInitialized, queries, disk,
                 serialVars, storeAndRet, toolVars>>

\* pipeline('feature-extraction', modelName) settles; QueryData.load starts.
ModelLoaded(c, loadFails) ==
  /\ callers[c].pc = "initialize.load"
  /\ IF loadFails
     THEN /\ CallerSettles(c, "initialize", <<>>, Error("ModelLoadFailed"))
          /\ UNCHANGED embedderIsInitialized
     ELSE /\ embedderIsInitialized' = TRUE
          /\ CallerAwaits(c, "initialize.read", [args |-> <<>>])
  /\ UNCHANGED <<queryRagIsInitialized, queries, disk, serialVars,
                 storeAndRet, toolVars>>

\* readFile settles: the Map is cleared and filled from the file, and
\* vectorStore.initialize is called.
DataFileRead(c) ==
  /\ callers[c].pc = "initialize.read"
  /\ queries' = disk
  /\ Initialize(getDimension)
  /\ CallerAwaits(c, "initialize.index", [args |-> <<>>])
  /\ UNCHANGED <<queryRagIsInitialized, embedderIsInitialized, disk,
                 serialVars, toolVars>>

\* indexQueries up to the first call of the model.
IndexQueriesCalled(c) ==
  /\ callers[c].pc = "initialize.index"
  /\ ret' = NoCall
  /\ IF getAllQueries = <<>>
     THEN /\ queryRagIsInitialized' = TRUE
          /\ CallerSettles(c, "initialize", <<>>, NoError)
     ELSE /\ UNCHANGED queryRagIsInitialized
          /\ IF embed(getAllQueries[1].description, PassagePrefix, FALSE).err
                  # NoError
             THEN CallerSettles(c, "initialize", <<>>,
                    embed(getAllQueries[1].description, PassagePrefix,
                          FALSE).err)
             ELSE CallerAwaits(c, "initialize.embed",
                               [args       |-> <<>>,
                                queries    |-> getAllQueries,
                                embeddings |-> <<>>])
  /\ UNCHANGED <<embedderIsInitialized, queries, disk, serialVars, storeVars,
                 histVars, toolVars>>

\* The model settles for the next description of embedBatch; after the last
\* one vectorStore.addVectors is called.
TextEmbedded(c, modelFails) ==
  /\ callers[c].pc = "initialize.embed"
  /\ LET locals == callers[c].frame
         i == Len(locals.embeddings) + 1
         embeddings ==
           Append(locals.embeddings,
                  ModelOutput(PassagePrefix \o Trim(locals.queries[i].description)))
         next == embed(locals.queries[i + 1].description, PassagePrefix, FALSE)
     IN IF modelFails
        THEN /\ CallerSettles(c, "initialize", <<>>, Error("EmbeddingFailed"))
             /\ UNCHANGED storeAndRet
        ELSE IF i < Len(locals.queries)
        THEN /\ IF next.err # NoError
                THEN CallerSettles(c, "initialize", <<>>, next.err)
                ELSE CallerAwaits(c, "initialize.embed",
                                  [locals EXCEPT !.embeddings = embeddings])
             /\ UNCHANGED storeAndRet
        ELSE /\ AddVectors(embeddings,
                           [q \in 1..Len(locals.queries) |->
                              locals.queries[q].id])
             /\ CallerAwaits(c, "initialize.end", [args |-> <<>>])
  /\ UNCHANGED <<queryRagIsInitialized, embedderIsInitialized, queries, disk,
                 serialVars, toolVars>>

\* this.isInitialized = true, or the error of addVectors thrown again.
InitializeSettles(c) ==
  /\ callers[c].pc = "initialize.end"
  /\ ret' = NoCall
  /\ queryRagIsInitialized' = (ret.err = NoError \/ queryRagIsInitialized)
  /\ CallerSettles(c, "initialize", <<>>, ret.err)
  /\ UNCHANGED <<embedderIsInitialized, queries, disk, serialVars, storeVars,
                 histVars, toolVars>>

\* QueryRAG.updateQuery up to the writeFile of QueryData.save: the Map is
\* changed and the text of the file is made from it.
UpdateQueryCalled(c, queryId, updates) ==
  /\ callers[c].pc = "idle"
  /\ IF ~Has(queries, queryId)
     THEN /\ CallerSettles(c, "updateQuery", <<queryId, updates>>,
                           Error("QueryNotFound"))
          /\ UNCHANGED queries
     ELSE /\ queries' = SetExisting(queries, queryId,
                          UpdatedQuery(getQueryById(queryId)[1], updates))
          /\ CallerAwaits(c, "updateQuery.save",
                          [args          |-> <<queryId, updates>>,
                           existingQuery |-> getQueryById(queryId)[1],
                           data          |-> queries'])
  /\ UNCHANGED <<queryRagIsInitialized, embedderIsInitialized, disk,
                 serialVars, storeAndRet, toolVars>>

\* writeFile settles; QueryRAG.updateQuery goes on to the call of the model.
DataFileWritten(c, writeFails) ==
  /\ callers[c].pc = "updateQuery.save"
  /\ LET locals == callers[c].frame
         embedding == embedDocument(locals.args[2].description, FALSE)
     IN IF writeFails
        THEN /\ CallerSettles(c, "updateQuery", locals.args,
                              Error("SaveFailed"))
             /\ UNCHANGED disk
        ELSE /\ disk' = locals.data
             /\ IF "description" \notin DOMAIN locals.args[2]
                   \/ Falsy(locals.args[2].description)
                THEN CallerSettles(c, "updateQuery", locals.args, NoError)
                ELSE IF embedding.err # NoError
                THEN CallerSettles(c, "updateQuery", locals.args,
                                   embedding.err)
                ELSE CallerAwaits(c, "updateQuery.embed", locals)
  /\ UNCHANGED <<queryRagIsInitialized, embedderIsInitialized, queries,
                 serialVars, storeAndRet, toolVars>>

\* The model settles; vectorStore.updateVector is called.
DescriptionEmbedded(c, modelFails) ==
  /\ callers[c].pc = "updateQuery.embed"
  /\ LET locals == callers[c].frame
     IN IF modelFails
        THEN /\ CallerSettles(c, "updateQuery", locals.args,
                              Error("EmbeddingFailed"))
             /\ UNCHANGED storeAndRet
        ELSE /\ UpdateVector(locals.args[1],
                             ModelOutput(PassagePrefix
                                           \o Trim(locals.args[2].description)))
             /\ CallerAwaits(c, "updateQuery.end", locals)
  /\ UNCHANGED <<queryRagIsInitialized, embedderIsInitialized, queries, disk,
                 serialVars, toolVars>>

UpdateQuerySettles(c) ==
  /\ callers[c].pc = "updateQuery.end"
  /\ ret' = NoCall
  /\ CallerSettles(c, "updateQuery", callers[c].frame.args, ret.err)
  /\ UNCHANGED <<queryRagIsInitialized, embedderIsInitialized, queries, disk,
                 serialVars, storeVars, histVars, toolVars>>

InitOverlap ==
  /\ vectors = <<>>
  /\ normalizedVectors = <<>>
  /\ metadata = <<>>
  /\ dimension = <<>>
  /\ isInitialized = FALSE
  /\ ret = NoCall
  /\ added = 0
  /\ removed = 0
  /\ discarded = 0
  /\ queryRagIsInitialized = FALSE
  /\ embedderIsInitialized = FALSE
  /\ queries = <<>>
  /\ disk \in {<<RecordA>>, <<RecordA, RecordB>>}
  /\ modelDimension = getDimension
  /\ uuids = 0
  /\ pc = "idle"
  /\ frame = [calls |-> <<>>]
  /\ ragRet = NoRagCall
  /\ lifecycle = "new"
  /\ callers = [c \in Callers |->
                  [pc |-> "idle", frame |-> [args |-> <<>>], ret |-> NoRagCall]]
  /\ inspector = <<>>
  /\ requests = <<>>

NextOverlap ==
  \/ \E c \in Callers : InitializeCalled(c)
  \/ \E c \in Callers, loadFails \in BOOLEAN : ModelLoaded(c, loadFails)
  \/ \E c \in Callers : DataFileRead(c)
  \/ \E c \in Callers : IndexQueriesCalled(c)
  \/ \E c \in Callers, modelFails \in BOOLEAN : TextEmbedded(c, modelFails)
  \/ \E c \in Callers : InitializeSettles(c)
  \/ \E c \in Callers, updates \in OverlapUpdates :
       UpdateQueryCalled(c, RecordA.id, updates)
  \/ \E c \in Callers, writeFails \in BOOLEAN : DataFileWritten(c, writeFails)
  \/ \E c \in Callers, modelFails \in BOOLEAN : DescriptionEmbedded(c, modelFails)
  \/ \E c \in Callers : UpdateQuerySettles(c)

SpecOverlap == InitOverlap /\ [][NextOverlap]_vars

(* --------------------------- McpInspector ----------------------------- *)

\* The largest options.maxLogEntries an inspector is constructed with, and
\* the number of callTool invocations of a run.
MaxLogEntries == 2
MaxToolCalls == 3

\* const levels = ['debug', 'info', 'warn', 'error']
levels == <<"debug", "info", "warn", "error">>

\* levels.indexOf(level)
IndexOfLevel(level) == CHOOSE i \in 1..Len(levels) : levels[i] = level

shouldLog(insp, level) ==
  IndexOfLevel(level) >= IndexOfLevel(insp.options.logLevel)

\* Variant: shift takes the newest entry.
ShiftNewest(s) == SubSeq(s, 1, Len(s) - 1)

\* Array.prototype.shift
Shift(s) == Tail(s)

\* An entry of the log: its level, its type and the request it is about.
LogEntry(level, type, requestId, toolName) ==
  [level |-> level, type |-> type, requestId |-> requestId,
   toolName |-> toolName]

\* this.logs after log(level, message, data)
log(insp, level, logEntry) ==
  IF ~shouldLog(insp, level) THEN insp.logs
  ELSE IF Len(Push(insp.logs, logEntry)) > insp.options.maxLogEntries
  THEN Shift(Push(insp.logs, logEntry))
  ELSE Push(insp.logs, logEntry)

\* The entries pushed so far, with the one of this log call.
Logged(insp, history, level, logEntry) ==
  IF shouldLog(insp, level) THEN Append(history, logEntry) ELSE history

\* byTool with an entry for toolName.
WithTool(byTool, toolName) ==
  IF toolName \in DOMAIN byTool THEN byTool
  ELSE [n \in DOMAIN byTool \cup {toolName} |->
          IF n = toolName THEN [total |-> 0, successful |-> 0, failed |-> 0]
          ELSE byTool[n]]

logToolCall(insp, requestId, toolName) ==
  [insp EXCEPT
     !.logs = log(insp, "info",
                  LogEntry("info", "tool-call", requestId, toolName)),
     !.metrics.toolCalls.total = @ + 1,
     !.metrics.toolCalls.byTool =
        [WithTool(@, toolName) EXCEPT ![toolName].total = @ + 1]]

logToolResult(insp, requestId, toolName) ==
  [insp EXCEPT
     !.logs = log(insp, "info",
                  LogEntry("info", "tool-result", requestId, toolName)),
     !.metrics.toolCalls.successful = @ + 1,
     !.metrics.toolCalls.byTool[toolName].successful = @ + 1]

\* Variant: logToolError does not count the error.
logToolErrorUncounted(insp, requestId, toolName) ==
  [insp EXCEPT
     !.logs = log(insp, "error",
                  LogEntry("error", "tool-error", requestId, toolName)),
     !.metrics.toolCalls.failed = @ + 1,
     !.metrics.toolCalls.byTool[toolName].failed = @ + 1]

logToolError(insp, requestId, toolName) ==
  [insp EXCEPT
     !.logs = log(insp, "error",
                  LogEntry("error", "tool-error", requestId, toolName)),
     !.metrics.toolCalls.failed = @ + 1,
     !.metrics.toolCalls.byTool[toolName].failed = @ + 1,
     !.metrics.errors.total = @ + 1]

\* new McpInspector(server, options)
NewInspector(options) ==
  [options |-> options,
   logs    |-> <<>>,
   metrics |-> [toolCalls |-> [total |-> 0, successful |-> 0, failed |-> 0,
                               byTool |-> <<>>],
                errors    |-> [total |-> 0]]]

(* --------------------------- McpTools --------------------------------- *)

\* inputSchema.properties.topK of the search_queries tool definition
SearchQueriesTopK == [default |-> 1, minimum |-> 1, maximum |-> 1]

\* const { query, topK = 5 } = args
TopKOf(args) == IF "topK" \in DOMAIN args THEN args.topK ELSE 5

\* !text || text.trim() === '' for a string
NotValidString(text) == Falsy(text) \/ Trim(text) = EmptyString

\* String.prototype.trim on an id, which is a string of the model
TrimId(queryId) ==
  CASE queryId = " a" -> "a"
    [] queryId = " " -> ""
    [] OTHER -> queryId

\* !queryId || queryId.trim() === '' for an id
NotValidId(queryId) == queryId = "" \/ TrimId(queryId) = ""

\* Math.round(similarity * 100) / 100, in hundredths
RoundSimilarity(similarity) == RoundDiv(similarity * 100, Scale)

\* What a tool makes of the value QueryRAG returned to it.
ToolResult(name, args, out) ==
  CASE name = "search_queries" ->
         [searchQuery |-> args.query,
          resultCount |-> Len(out),
          results     |-> [p \in 1..Len(out) |->
                             [out[p] EXCEPT
                                !.similarity = RoundSimilarity(@)]]]
    [] name = "add_query" ->
         [success |-> TRUE, queryId |-> out[1],
          description |-> Trim(args.description)]
    [] OTHER ->
         [success |-> TRUE, queryId |-> TrimId(args.queryId)]

NoRequest ==
  [id |-> 0, name |-> "none", args |-> <<>>, called |-> FALSE,
   result |-> [err |-> NoError, out |-> <<>>]]

\* callTool is suspended at the await of its tool; called tells that the
\* tool has called its QueryRAG method, and result is what a tool that has
\* not called it settles with.
ToolAwaits(requestId, name, args, called, err, out) ==
  /\ inspector' = logToolCall(inspector, requestId, name)
  /\ requests' =
       [requests EXCEPT
          !.issued = requestId,
          !.inFlight = @ \cup {[id |-> requestId, name |-> name,
                                args |-> args, called |-> called,
                                result |-> [err |-> err, out |-> out]]},
          !.logged = Logged(inspector, @, "info",
                            LogEntry("info", "tool-call", requestId, name))]
  /\ UNCHANGED overlapVars

\* index.js sets the request handlers after initializeAll() has resolved.
ServerStarted == queryRagIsInitialized

\* The step is one of initializeAll().
Starting == ~ServerStarted /\ UNCHANGED <<overlapVars, toolVars>>

\* No tool is waiting for QueryRAG.
QueryRAGFree == \A r \in requests.inFlight : ~r.called

\* callTool('search_queries', args) up to its first await
CallSearchQueries(args, modelFails) ==
  /\ ServerStarted
  /\ requests.issued < MaxToolCalls
  /\ IF NotValidString(args.query)
     THEN /\ ToolAwaits(requests.issued + 1, "search_queries", args, FALSE,
                        Error("InvalidQuery"), <<>>)
          /\ UNCHANGED <<ragVars, storeAndRet>>
     ELSE IF TopKOf(args) < 1 \/ TopKOf(args) > 20
     THEN /\ ToolAwaits(requests.issued + 1, "search_queries", args, FALSE,
                        Error("InvalidTopK"), <<>>)
          /\ UNCHANGED <<ragVars, storeAndRet>>
     ELSE /\ QueryRAGFree
          /\ RagSearch(Trim(args.query), TopKOf(args), modelFails)
          /\ ToolAwaits(requests.issued + 1, "search_queries", args, TRUE,
                        NoError, <<>>)

\* callTool('add_query', args) up to its first await
CallAddQuery(args, modelFails) ==
  /\ ServerStarted
  /\ requests.issued < MaxToolCalls
  /\ IF NotValidString(args.description)
     THEN /\ ToolAwaits(requests.issued + 1, "add_query", args, FALSE,
                        Error("InvalidDescription"), <<>>)
          /\ UNCHANGED <<ragVars, storeAndRet>>
     ELSE IF NotValidString(args.sqlScript)
     THEN /\ ToolAwaits(requests.issued + 1, "add_query", args, FALSE,
                        Error("InvalidSqlScript"), <<>>)
          /\ UNCHANGED <<ragVars, storeAndRet>>
     ELSE /\ QueryRAGFree
          /\ RagAddQuery([description |-> Trim(args.description),
                          sqlScript   |-> Trim(args.sqlScript)], modelFails)
          /\ ToolAwaits(requests.issued + 1, "add_query", args, TRUE,
                        NoError, <<>>)

\* callTool('get_rag_stats', args) up to its await
CallGetRagStats ==
  /\ ServerStarted
  /\ requests.issued < MaxToolCalls
  /\ ToolAwaits(requests.issued + 1, "get_rag_stats", <<>>, FALSE, NoError,
                [stats |-> getStats, inspectorEnabled |-> TRUE])
  /\ UNCHANGED <<ragVars, storeAndRet>>

\* callTool('remove_query', args) up to its first await
CallRemoveQuery(args) ==
  /\ ServerStarted
  /\ requests.issued < MaxToolCalls
  /\ IF NotValidId(args.queryId)
     THEN /\ ToolAwaits(requests.issued + 1, "remove_query", args, FALSE,
                        Error("InvalidQueryId"), <<>>)
          /\ UNCHANGED <<ragVars, storeAndRet>>
     ELSE /\ QueryRAGFree
          /\ RagRemoveQuery(TrimId(args.queryId))
          /\ ToolAwaits(requests.issued + 1, "remove_query", args, TRUE,
                        NoError, <<>>)

\* callTool with a name that is no tool: the switch throws and the catch
\* block runs before callTool is suspended anywhere.
CallUnknownTool(name) ==
  /\ ServerStarted
  /\ requests.issued < MaxToolCalls
  /\ LET requestId == requests.issued + 1
         called == logToolCall(inspector, requestId, name)
         callEntry == LogEntry("info", "tool-call", requestId, name)
         errorEntry == LogEntry("error", "tool-error", requestId, name)
     IN /\ inspector' = logToolError(called, requestId, name)
        /\ requests' =
             [requests EXCEPT
                !.issued = requestId,
                !.ret = [id |-> requestId, name |-> name, args |-> <<>>,
                         called |-> FALSE,
                         result |-> [err |-> Error("MethodNotFound"),
                                     out |-> <<>>]],
                !.logged = Logged(inspector,
                                  Logged(inspector, @, "info", callEntry),
                                  "error", errorEntry)]
  /\ UNCHANGED <<ragVars, storeAndRet, overlapVars>>

\* The tool of request r has settled: callTool logs the result or the error
\* and settles.
ToolSettles(r) ==
  /\ r \in requests.inFlight
  /\ r.called => (pc = "idle" /\ ragRet.op # "none")
  /\ LET result == IF ~r.called THEN r.result
                   ELSE IF ragRet.err # NoError
                   THEN [err |-> ragRet.err, out |-> <<>>]
                   ELSE [err |-> NoError,
                         out |-> ToolResult(r.name, r.args, ragRet.out)]
         type == IF result.err = NoError THEN "tool-result" ELSE "tool-error"
         level == IF result.err = NoError THEN "info" ELSE "error"
     IN /\ inspector' = IF result.err = NoError
                        THEN logToolResult(inspector, r.id, r.name)
                        ELSE logToolError(inspector, r.id, r.name)
        /\ requests' =
             [requests EXCEPT
                !.inFlight = @ \ {r},
                !.ret = [r EXCEPT !.result = result],
                !.logged = Logged(inspector, @, level,
                                  LogEntry(level, type, r.id, r.name))]
  /\ UNCHANGED <<ragVars, storeAndRet, overlapVars>>

\* The step is one of QueryRAG, between the awaits of a tool.
Inside == UNCHANGED <<overlapVars, toolVars>>

\* The arguments of the tools.
SearchArgs ==
  {[query |-> <<"x">>], [query |-> <<" ">>]}
    \cup {[query |-> <<"x">>, topK |-> k] : k \in {2, 21}}
AddArgs == {[description |-> <<"y", " ">>, sqlScript |-> <<"s">>]}
RemoveArgs == {[queryId |-> " a"], [queryId |-> " "]}
UnknownTools == {"update_query"}
InspectorOptions ==
  {[logLevel |-> "info", maxLogEntries |-> MaxLogEntries],
   [logLevel |-> "error", maxLogEntries |-> 1]}

\* index.js: the QueryRAG, the inspector and the tools are constructed; the
\* data file holds two records.
InitTools ==
  /\ vectors = <<>>
  /\ normalizedVectors = <<>>
  /\ metadata = <<>>
  /\ dimension = <<>>
  /\ isInitialized = FALSE
  /\ ret = NoCall
  /\ added = 0
  /\ removed = 0
  /\ discarded = 0
  /\ queryRagIsInitialized = FALSE
  /\ embedderIsInitialized = FALSE
  /\ queries = <<>>
  /\ disk = <<RecordA, RecordB>>
  /\ modelDimension = getDimension
  /\ uuids = 0
  /\ pc = "idle"
  /\ frame = [calls |-> <<>>]
  /\ ragRet = NoRagCall
  /\ lifecycle = "new"
  /\ callers = <<>>
  /\ \E options \in InspectorOptions : inspector = NewInspector(options)
  /\ requests = [issued |-> 0, inFlight |-> {}, ret |-> NoRequest,
                 logged |-> <<>>]

NextTools ==
  \/ \E loadFails \in BOOLEAN : RagInitialize(loadFails) /\ Starting
  \/ RagInitializeStore /\ Starting
  \/ \E failAt \in 0..Len(queries) : RagIndexQueries(failAt) /\ Starting
  \/ RagIndexAdd /\ Starting
  \/ RagInitializeEnd /\ Starting
  \/ \E args \in SearchArgs : CallSearchQueries(args, FALSE)
  \/ RagSearchStore /\ Inside
  \/ RagSearchEnd /\ Inside
  \/ \E args \in AddArgs, modelFails \in BOOLEAN :
       CallAddQuery(args, modelFails)
  \/ RagAddQueryStore /\ Inside
  \/ RagAddQueryEnd /\ Inside
  \/ CallGetRagStats
  \/ \E args \in RemoveArgs : CallRemoveQuery(args)
  \/ RagRemoveQueryStore /\ Inside
  \/ RagRemoveQueryEnd /\ Inside
  \/ \E name \in UnknownTools : CallUnknownTool(name)
  \/ \E r \in requests.inFlight : ToolSettles(r)

SpecTools == InitTools /\ [][NextTools]_vars

(* ====================================================================== *)
(*                              Properties                                *)
(* ====================================================================== *)

Positions == 1..Len(vectors)

(* C1: in every reachable state the three collections vectors,             *)
(* normalizedVectors and metadata have the same length, and at every       *)
(* position the normalized vector is the normalization of the raw vector   *)
(* and the metadata's norm is the raw vector's norm - also after calls     *)
(* that fail.                                                              *)
C1_CollectionsAligned ==
  /\ Len(normalizedVectors) = Len(vectors)
  /\ Len(metadata) = Len(vectors)
  /\ \A p \in Positions :
       LET v == vectors[p]
           norm == vectorNorm(v)
       IN /\ metadata[p].norm = norm
          /\ DOMAIN normalizedVectors[p] = DOMAIN v
          /\ \A i \in DOMAIN v :
               normalizedVectors[p][i] =
                 IF norm = 0 THEN v[i] ELSE Div(v[i], norm)

\* A successful updateVector, after a removal, on a store that holds a zero
\* vector and a vector whose normalization differs from it.
C1_Witness ==
  /\ ret.op = "updateVector"
  /\ ret.err = NoError
  /\ removed > 0
  /\ \E p, q \in Positions :
       /\ vectorNorm(vectors[p]) = 0
       /\ normalizedVectors[q] # vectors[q]

(* C2: in every reachable state metadata[i].index = i for every stored     *)
(* position i (zero-based): addVectors gives a new record the size of the  *)
(* collection before its insertion, removeVector shifts the records behind *)
(* the removed one down by one.                                            *)
C2_IndexIsPosition ==
  \A p \in 1..Len(metadata) : metadata[p].index = p - 1

\* Three vectors were inserted and the first was removed: the two that
\* remain are at positions 0 and 1.
C2_Witness ==
  /\ ret.op = "removeVector"
  /\ ret.err = NoError
  /\ added = 3
  /\ removed = 1
  /\ Len(metadata) = 2
  /\ metadata[1].index = 0
  /\ metadata[2].index = 1
  /\ metadata[1].id # ret.args[1]

(* C3, as claimed: getInfo().vectorCount is the number of vectors          *)
(* appended by addVectors minus the number of successful removeVector      *)
(* calls, after any sequence of operations, cleanup included.              *)
C3_CountIsAddedMinusRemoved ==
  GetInfo.vectorCount = added - removed

(* C3, amended: getInfo().vectorCount is the number of vectors appended    *)
(* by addVectors, minus the number of successful removeVector calls, minus *)
(* the number of records that cleanup calls discarded.                     *)
C3_CountIsAddedMinusRemovedMinusDiscarded ==
  /\ GetInfo.vectorCount = added - removed - discarded
  /\ ret.op = "getInfo" =>
       ret.out[1].vectorCount = added - removed - discarded

\* getInfo is called on a store that holds a record, after a removal and
\* after a cleanup that discarded a record.
C3_Witness ==
  /\ ret.op = "getInfo"
  /\ removed > 0
  /\ discarded > 0
  /\ ret.out[1].vectorCount > 0

(* C4: in every reachable state every stored raw vector and every stored  *)
(* normalized vector has exactly dimension components.                     *)
C4_StoredLengthIsDimension ==
  \A p \in Positions :
    /\ dimension # <<>>
    /\ Len(vectors[p]) = dimension[1]
    /\ Len(normalizedVectors[p]) = dimension[1]

\* The store holds vectors of the second dimension it was initialized
\* with, after addVectors and updateVector refused vectors of the first.
C4_Witness ==
  /\ dimension = <<Len(VecV4)>>
  /\ discarded > 0
  /\ Len(vectors) > 0
  /\ ret.op \in {"addVectors", "updateVector"}
  /\ ret.err.kind = "DimensionMismatch"

(* ---------------------------------------------------------------------- *)

\* The batch and the ids of the addVectors call that a step makes.
AddedVecs == ret'.args[1]
AddedIds == ret'.args[2]

\* The batch positions (1-based) whose vector has the wrong length.
BadPositions == {i \in 1..Len(AddedVecs) : WrongDimension(AddedVecs[i])}

FirstBadPosition ==
  CHOOSE i \in BadPositions : \A j \in BadPositions : i <= j

\* One step: if it is an addVectors call on an initialized store, with as
\* many ids as vectors and a vector of the wrong length, then the error
\* names the first such position and the collections grow by exactly the
\* batch's records before it.
C5_StepFailsAtFirstBad ==
  (/\ ret'.op = "addVectors"
   /\ isInitialized
   /\ Len(AddedVecs) = Len(AddedIds)
   /\ BadPositions # {})
  => LET i == FirstBadPosition
     IN /\ ret'.err = ErrorAt("DimensionMismatch", i - 1)
        /\ vectors' = vectors \o SubSeq(AddedVecs, 1, i - 1)
        /\ normalizedVectors' =
             normalizedVectors
               \o [j \in 1..(i - 1) |-> normalizeVector(AddedVecs[j])]
        /\ metadata' =
             metadata
               \o [j \in 1..(i - 1) |->
                     [id    |-> AddedIds[j],
                      index |-> Len(vectors) + j - 1,
                      norm  |-> vectorNorm(AddedVecs[j])]]

(* C5: when addVectors is given a batch whose vector at position i is the  *)
(* first of the wrong length, the call fails with a dimension-mismatch     *)
(* error naming i, the vectors at batch positions 0..i-1 are stored, each  *)
(* with its normalized vector and its metadata, and nothing is stored for  *)
(* position i or a later one.                                              *)
C5_FailsAtFirstBadVector == [][C5_StepFailsAtFirstBad]_vars

\* A batch of two whose second vector has the wrong length was given to a
\* store that held a record: the call failed naming position 1 and the
\* first vector of the batch is the store's last record.
C5_Witness ==
  /\ ret.op = "addVectors"
  /\ ret.err = ErrorAt("DimensionMismatch", 1)
  /\ Len(ret.args[1]) = 2
  /\ Len(vectors) >= 2
  /\ vectors[Len(vectors)] = ret.args[1][1]
  /\ metadata[Len(metadata)].id = ret.args[2][1]

\* One step, C6 as claimed: each of the two conditions alone decides the
\* error.
C6_StepAsClaimed ==
  ret'.op = "addVectors" =>
    /\ ~isInitialized =>
         ret'.err = Error("NotInitialized") /\ UNCHANGED storeVars
    /\ Len(AddedVecs) # Len(AddedIds) =>
         ret'.err = Error("ArgumentMismatch") /\ UNCHANGED storeVars

(* C6, as claimed: addVectors fails with a not-initialized error when the  *)
(* store is not initialized, and with an argument-mismatch error when the  *)
(* number of vectors differs from the number of ids; either way the store  *)
(* is left as it was.                                                      *)
C6_AsClaimed == [][C6_StepAsClaimed]_vars

\* One step, C6 amended: the argument-mismatch error is for an initialized
\* store.
C6_StepPrecheckFails ==
  ret'.op = "addVectors" =>
    /\ ~isInitialized =>
         ret'.err = Error("NotInitialized") /\ UNCHANGED storeVars
    /\ (isInitialized /\ Len(AddedVecs) # Len(AddedIds)) =>
         ret'.err = Error("ArgumentMismatch") /\ UNCHANGED storeVars

(* C6, amended: addVectors fails with a not-initialized error when the     *)
(* store is not initialized, and with an argument-mismatch error when the  *)
(* store is initialized and the number of vectors differs from the number  *)
(* of ids; either way vectors, normalizedVectors, metadata, dimension and  *)
(* the initialized flag are left as they were.                             *)
C6_PrecheckFailsWithoutEffect == [][C6_StepPrecheckFails]_vars

\* addVectors with one vector and two ids on an initialized store that
\* holds records: the argument-mismatch error.
C6_Witness ==
  /\ ret.op = "addVectors"
  /\ ret.err = Error("ArgumentMismatch")
  /\ isInitialized
  /\ Len(ret.args[1]) < Len(ret.args[2])
  /\ Len(vectors) > 0

(* ---------------------------------------------------------------------- *)

SearchOk == ret.op = "search" /\ ret.err = NoError

RECURSIVE SimilaritiesUpTo(_, _)
\* The similarities of the stored records at positions 1..n to the
\* normalized query, as a sequence.
SimilaritiesUpTo(normalizedQuery, n) ==
  IF n = 0 THEN <<>>
  ELSE Append(SimilaritiesUpTo(normalizedQuery, n - 1),
              fastCosineSimilarity(normalizedQuery, normalizedVectors[n]))

\* The similarity of every stored record, by position, to the query of the
\* last search.
StoredSimilarities ==
  SimilaritiesUpTo(normalizeVector(ret.args[1]), Len(normalizedVectors))

\* With similarities sim: record p ranks before record q when it is more
\* similar, or as similar and inserted earlier.
RanksBefore(sim, p, q) ==
  \/ sim[p] > sim[q]
  \/ sim[p] = sim[q] /\ p < q

\* The 1-based rank of record p among all stored records.
RankOf(sim, p) == 1 + Cardinality({q \in Positions : RanksBefore(sim, q, p)})

(* C7: search(query, k) returns the first min(k, n) entries of the list    *)
(* of all n stored records sorted by descending similarity to the query,   *)
(* records of equal similarity in insertion order.                         *)
C7_SearchReturnsTopK ==
  SearchOk =>
    LET sim == StoredSimilarities
    IN /\ Len(ret.out) = Min(ret.args[2], Len(vectors))
       /\ \A r \in 1..Len(ret.out) :
            \E p \in Positions :
              /\ ret.out[r].score = sim[p]
              /\ RankOf(sim, p) = r
              /\ ret.out[r].id = metadata[p].id

\* A = [1, 0], B = [0, 1], C = [0.9, 0.1] are stored as a, b, c; the
\* search for [1, 0] with k = 2 returned a, then c.
C7_Witness ==
  /\ SearchOk
  /\ vectors = <<VecA, VecB, VecC>>
  /\ [p \in 1..3 |-> metadata[p].id] = <<"a", "b", "c">>
  /\ ret.args = <<VecA, 2>>
  /\ [r \in 1..Len(ret.out) |-> ret.out[r].id] = <<"a", "c">>
  /\ ret.out[1].score = Scale
  /\ ret.out[2].score < Scale
  /\ ret.out[2].score > StoredSimilarities[2]

\* How often queryId occurs in a sequence of records with an id field.
Occurrences(s, queryId) == Cardinality({p \in 1..Len(s) : s[p].id = queryId})

(* C8: for every k >= 1 and every store of n records, search returns       *)
(* exactly min(k, n) results, each {id, score, distance} with              *)
(* distance = 1 - score; with k > n it returns all n stored records,       *)
(* ranked, without error.                                                  *)
C8_SearchResultShape ==
  /\ SearchOk =>
       /\ Len(ret.out) = Min(ret.args[2], Len(vectors))
       /\ \A r \in 1..Len(ret.out) :
            /\ DOMAIN ret.out[r] = {"id", "score", "distance"}
            /\ ret.out[r].distance = Scale - ret.out[r].score
       /\ \A r \in 1..(Len(ret.out) - 1) :
            ret.out[r].score >= ret.out[r + 1].score
       /\ ret.args[2] > Len(vectors) =>
            \A i \in Ids : Occurrences(ret.out, i) = Occurrences(metadata, i)
  /\ (/\ ret.op = "search"
      /\ isInitialized
      /\ ~WrongDimension(ret.args[1])
      /\ ret.args[2] > Len(vectors)) => ret.err = NoError

\* k is larger than the number of stored records, of which there are
\* several with different scores.
C8_Witness ==
  /\ SearchOk
  /\ ret.args[2] > Len(vectors)
  /\ Len(ret.out) = Len(vectors)
  /\ Len(ret.out) >= 2
  /\ ret.out[1].score > ret.out[Len(ret.out)].score

(* C9: search never changes the store: after any search call, successful  *)
(* or failing, vectors, normalizedVectors, metadata, dimension and the     *)
(* initialized flag are what they were before the call.                    *)
C9_SearchChangesNothing ==
  [][ret'.op = "search" => UNCHANGED storeVars]_vars

\* A search has returned the records in an order that is not the order of
\* the store, which is still aligned with its positions.
C9_Witness ==
  /\ SearchOk
  /\ Len(ret.out) = Len(metadata)
  /\ Len(ret.out) >= 2
  /\ ret.out[1].id # metadata[1].id
  /\ ret.out[1].score > ret.out[2].score

(* C10: search fails, and returns no results, whenever the store is not    *)
(* initialized or the query's length differs from the store's dimension;   *)
(* addVectors with a vector whose length differs from the dimension fails  *)
(* too.                                                                    *)
C10_MismatchFails ==
  /\ (ret.op = "search" /\ (~isInitialized \/ WrongDimension(ret.args[1])))
       => ret.err # NoError /\ ret.out = <<>>
  /\ (/\ ret.op = "addVectors"
      /\ \E i \in 1..Len(ret.args[1]) : WrongDimension(ret.args[1][i]))
       => ret.err # NoError

\* A query of 3 components against an initialized index of dimension 4
\* that holds a record.
C10_Witness ==
  /\ ret.op = "search"
  /\ isInitialized
  /\ dimension = <<4>>
  /\ Len(ret.args[1]) = 3
  /\ Len(vectors) > 0
  /\ ret.err = Error("DimensionMismatch")

(* ---------------------------------------------------------------------- *)

\* The three collections.
collections == <<vectors, normalizedVectors, metadata>>

\* The id given to the removeVector or updateVector call that a step makes.
CalledId == ret'.args[1]

\* Some stored record has the id, before the step.
Stored(queryId) == \E p \in 1..Len(metadata) : metadata[p].id = queryId

\* One step: a removeVector call with an id that no record has fails with
\* the not-found error and leaves the three collections as they were.
C11_StepRemoveMissing ==
  (ret'.op = "removeVector" /\ ~Stored(CalledId))
  => /\ ret'.err = Error("NotFound")
     /\ UNCHANGED collections

(* C11: removeVector(id) fails with a not-found error when no stored       *)
(* record has that id, in any state (initialized or not, empty or not),    *)
(* and then leaves vectors, normalizedVectors and metadata unchanged.      *)
C11_RemoveMissingFails == [][C11_StepRemoveMissing]_vars

\* removeVector failed with not-found on an initialized store that holds
\* records under other ids.
C11_Witness ==
  /\ ret.op = "removeVector"
  /\ ret.err = Error("NotFound")
  /\ isInitialized
  /\ Len(metadata) >= 2
  /\ \A p \in 1..Len(metadata) : metadata[p].id # ret.args[1]

\* The record at position p, without its index field.
RecordAt(V, N, M, p) ==
  [id |-> M[p].id, vector |-> V[p], normalized |-> N[p], norm |-> M[p].norm]

\* The records of the store before a step, and after it.
RecordBefore(p) == RecordAt(vectors, normalizedVectors, metadata, p)
RecordAfter(p) == RecordAt(vectors', normalizedVectors', metadata', p)

\* One step: a successful removeVector call takes one record with the
\* given id out of the three collections, the others keep their contents
\* and their order.
C12_StepRemovesOne ==
  (ret'.op = "removeVector" /\ ret'.err = NoError)
  => /\ Len(vectors') = Len(vectors) - 1
     /\ Len(normalizedVectors') = Len(normalizedVectors) - 1
     /\ Len(metadata') = Len(metadata) - 1
     /\ \E pos \in 1..Len(metadata) :
          /\ metadata[pos].id = CalledId
          /\ \A p \in 1..(pos - 1) : RecordAfter(p) = RecordBefore(p)
          /\ \A p \in pos..(Len(metadata) - 1) :
               RecordAfter(p) = RecordBefore(p + 1)

\* A search made after a removal, asking for at least as many results as
\* the store holds, returns the ids that remain, each as often as it is
\* stored.
C12_SearchFindsRemaining ==
  (SearchOk /\ removed > 0 /\ ret.args[2] >= Len(metadata))
  => \A i \in Ids : Occurrences(ret.out, i) = Occurrences(metadata, i)

(* C12: a successful removeVector(id) removes exactly one record, stored   *)
(* under id, from all three collections: the size decreases by one, every  *)
(* other record keeps its id, raw vector, normalized vector and norm, the  *)
(* order of the remaining records is unchanged, and a later search returns *)
(* exactly the remaining ids.                                              *)
C12_RemovesExactlyOne ==
  [][C12_StepRemovesOne]_vars /\ []C12_SearchFindsRemaining

\* Three different vectors were inserted as a, b, c and b was removed; the
\* search that followed returned c and a, the two that remain.
C12_Witness ==
  /\ SearchOk
  /\ added = 3
  /\ removed = 1
  /\ discarded = 0
  /\ Len(metadata) = 2
  /\ metadata[1].id = "a"
  /\ metadata[2].id = "c"
  /\ vectors[1] # vectors[2]
  /\ [r \in 1..Len(ret.out) |-> ret.out[r].id] = <<"c", "a">>

(* ---------------------------------------------------------------------- *)

\* The vector given to the updateVector call that a step makes.
CalledVector == ret'.args[2]

\* One step: a successful updateVector call rewrites the raw vector, the
\* normalized vector and the norm of one record with the given id, and
\* nothing else.
C13_StepUpdatesOne ==
  (ret'.op = "updateVector" /\ ret'.err = NoError)
  => /\ Len(vectors') = Len(vectors)
     /\ Len(normalizedVectors') = Len(normalizedVectors)
     /\ Len(metadata') = Len(metadata)
     /\ UNCHANGED <<dimension, isInitialized>>
     /\ \E pos \in 1..Len(metadata) :
          /\ metadata[pos].id = CalledId
          /\ vectors'[pos] = CalledVector
          /\ normalizedVectors'[pos] = normalizeVector(CalledVector)
          /\ metadata'[pos] =
               [id    |-> CalledId,
                index |-> metadata[pos].index,
                norm  |-> vectorNorm(CalledVector)]
          /\ \A p \in 1..Len(metadata) :
               p # pos =>
                 /\ vectors'[p] = vectors[p]
                 /\ normalizedVectors'[p] = normalizedVectors[p]
                 /\ metadata'[p] = metadata[p]

(* C13: a successful updateVector(id, newVector) replaces the raw vector,  *)
(* the normalized vector and the norm of the record stored under id and    *)
(* changes nothing else: the record's id and position, the collection      *)
(* size and every other record's vectors and metadata are unchanged.       *)
C13_UpdatesExactlyOne == [][C13_StepUpdatesOne]_vars

\* The second of three records was updated to a vector that is not its
\* own normalization; its neighbours hold other vectors.
C13_Witness ==
  /\ ret.op = "updateVector"
  /\ ret.err = NoError
  /\ Len(metadata) = 3
  /\ metadata[2].id = ret.args[1]
  /\ metadata[1].id # ret.args[1]
  /\ vectors[2] = ret.args[2]
  /\ vectors[1] # ret.args[2]
  /\ vectors[3] # ret.args[2]
  /\ normalizedVectors[1] # normalizedVectors[2]
  /\ metadata[2].index = 1

\* One step: an updateVector call with an id that no record has fails with
\* the not-found error, one with a stored id and a vector whose length is
\* not the dimension fails with the dimension-mismatch error, and either
\* way the three collections are as they were.
C14_StepUpdateFails ==
  ret'.op = "updateVector" =>
    /\ ~Stored(CalledId) =>
         ret'.err = Error("NotFound") /\ UNCHANGED collections
    /\ (/\ Stored(CalledId)
        /\ (dimension = <<>> \/ Len(CalledVector) # dimension[1])) =>
         ret'.err = Error("DimensionMismatch") /\ UNCHANGED collections

(* C14: updateVector(id, newVector) fails with a not-found error when no   *)
(* record has that id and with a dimension-mismatch error when the id      *)
(* exists but newVector's length differs from dimension; in both cases the *)
(* raw vector, normalized vector and norm of every record are unchanged.   *)
C14_UpdateFailsWithoutEffect == [][C14_StepUpdateFails]_vars

\* updateVector was refused a vector of 3 components for a stored id, in a
\* store of dimension 2 that holds several records.
C14_Witness ==
  /\ ret.op = "updateVector"
  /\ ret.err = Error("DimensionMismatch")
  /\ dimension = <<2>>
  /\ Len(ret.args[2]) = 3
  /\ Len(metadata) >= 2
  /\ \E p \in 1..Len(metadata) : metadata[p].id = ret.args[1]

(* ---------------------------------------------------------------------- *)

(* C15: initialize is idempotent: on a store that is already initialized,  *)
(* initialize(d') returns without error and without effect, for every d',  *)
(* also one that differs from the current dimension; the dimension, the    *)
(* initialized flag and all stored records are unchanged.                  *)
C15_InitializeIdempotent ==
  [][(ret'.op = "initialize" /\ isInitialized)
       => (ret'.err = NoError /\ UNCHANGED storeVars)]_vars

\* initialize was called with a number that is not the dimension, on a
\* store that holds records (and so was initialized before the call).
C15_Witness ==
  /\ ret.op = "initialize"
  /\ ret.err = NoError
  /\ isInitialized
  /\ dimension # <<ret.args[1]>>
  /\ Len(vectors) > 0

(* C16, as claimed: the dimension is a positive integer that is set        *)
(* exactly once: after the first initialize(d) it never changes again      *)
(* under any sequence of later operations, including cleanup followed by   *)
(* another initialize with a different argument.                           *)
C16_DimensionSetOnce ==
  [][/\ dimension' # <<>> => dimension'[1] > 0
     /\ dimension # <<>> => dimension' = dimension]_vars

(* ---------------------------------------------------------------------- *)

\* The store as cleanup leaves it.
CleanedUp ==
  /\ vectors = <<>>
  /\ normalizedVectors = <<>>
  /\ metadata = <<>>
  /\ ~isInitialized

\* One step: a cleanup call leaves the store cleaned up, and changes
\* nothing when it finds it so; an addVectors or search call on a store
\* that is not initialized fails with the not-initialized error.
C17_StepCleanup ==
  /\ ret'.op = "cleanup" =>
       /\ ret'.err = NoError
       /\ CleanedUp'
       /\ CleanedUp => UNCHANGED storeVars
  /\ (ret'.op \in {"addVectors", "search"} /\ ~isInitialized) =>
       /\ ret'.err = Error("NotInitialized")
       /\ UNCHANGED storeVars

(* C17: cleanup empties vectors, normalizedVectors and metadata and sets   *)
(* the initialized flag to false; calling it again in that state changes   *)
(* nothing; after cleanup, addVectors and search fail with a               *)
(* not-initialized error until initialize is called again.                 *)
C17_CleanupResets == [][C17_StepCleanup]_vars /\ [](~isInitialized => CleanedUp)

\* A search with a query of the store's dimension failed as not
\* initialized, after a cleanup that discarded records.
C17_Witness ==
  /\ ret.op = "search"
  /\ ret.err = Error("NotInitialized")
  /\ discarded >= 2
  /\ dimension = <<Len(ret.args[1])>>
  /\ CleanedUp

(* ---------------------------------------------------------------------- *)

\* All components are zero.
IsZero(vector) == \A i \in 1..Len(vector) : vector[i] = 0

\* Every record stored under queryId holds a zero vector.
StoredAsZero(queryId) ==
  \A p \in 1..Len(metadata) : metadata[p].id = queryId => IsZero(vectors[p])

(* C18: a vector whose components are all zero is handled without error:   *)
(* normalizeVector returns an all-zero copy of it, addVectors accepts it,  *)
(* and search gives score 0 and distance 1 for every pair in which the     *)
(* query or the stored vector is the zero vector, a zero query against a   *)
(* stored zero vector included.                                            *)
C18_ZeroVectorIsSafe ==
  /\ (ret.op = "search" /\ IsZero(ret.args[1]))
     => normalizeVector(ret.args[1]) = ret.args[1]
  /\ \A p \in Positions :
       IsZero(vectors[p]) =>
         normalizedVectors[p] = vectors[p] /\ metadata[p].norm = 0
  /\ (/\ ret.op = "addVectors"
      /\ isInitialized
      /\ Len(ret.args[1]) = Len(ret.args[2])
      /\ \A i \in 1..Len(ret.args[1]) : ~WrongDimension(ret.args[1][i]))
     => ret.err = NoError
  /\ (ret.op = "search" /\ isInitialized /\ ~WrongDimension(ret.args[1]))
     => /\ ret.err = NoError
        /\ \A r \in 1..Len(ret.out) :
             (IsZero(ret.args[1]) \/ StoredAsZero(ret.out[r].id))
             => ret.out[r].score = 0 /\ ret.out[r].distance = Scale

\* A zero query found a stored zero vector and a stored non-zero vector,
\* both with score 0.
C18_Witness ==
  /\ SearchOk
  /\ IsZero(ret.args[1])
  /\ Len(ret.out) >= 2
  /\ \E p, q \in Positions : IsZero(vectors[p]) /\ ~IsZero(vectors[q])
  /\ \A r \in 1..Len(ret.out) : ret.out[r].score = 0

(* ---------------------------------------------------------------------- *)

\* |x|
Abs(x) == IF x < 0 THEN 0 - x ELSE x

\* What rounding may add to or take from the similarity of a vector to
\* itself: one unit of the fixed-point resolution per component.
RoundingError(vector) == Len(vector)

(* C19, as claimed: for every non-zero vector v, when the store holds v   *)
(* under id X and no other record, search(v, k) for any k >= 1 returns     *)
(* exactly one result, with id X, score 1 and distance 0, up to rounding.  *)
C19_SelfSimilarity ==
  (/\ SearchOk
   /\ Len(vectors) = 1
   /\ vectors[1] = ret.args[1]
   /\ ~IsZero(ret.args[1]))
  => /\ Len(ret.out) = 1
     /\ ret.out[1].id = metadata[1].id
     /\ Abs(ret.out[1].score - Scale) <= RoundingError(ret.args[1])
     /\ Abs(ret.out[1].distance) <= RoundingError(ret.args[1])

(* ---------------------------------------------------------------------- *)

\* The lowest position, before the step, of a record with the id.
LowestPosition(queryId) ==
  CHOOSE p \in 1..Len(metadata) :
    /\ metadata[p].id = queryId
    /\ \A q \in 1..(p - 1) : metadata[q].id # queryId

\* One step: a successful addVectors call appends one record per vector of
\* its batch, whether the ids are stored already or not; a successful
\* removeVector or updateVector call acts on the record at the lowest
\* position among those with the id, and on no other.
C20_StepNoDeduplication ==
  /\ (ret'.op = "addVectors" /\ ret'.err = NoError) =>
       /\ Len(metadata') = Len(metadata) + Len(AddedIds)
       /\ \A p \in 1..Len(metadata) : RecordAfter(p) = RecordBefore(p)
       /\ \A j \in 1..Len(AddedIds) :
            /\ metadata'[Len(metadata) + j].id = AddedIds[j]
            /\ vectors'[Len(metadata) + j] = AddedVecs[j]
  /\ (ret'.op = "removeVector" /\ ret'.err = NoError) =>
       LET pos == LowestPosition(CalledId)
       IN /\ \A p \in 1..(pos - 1) : RecordAfter(p) = RecordBefore(p)
          /\ \A p \in pos..(Len(metadata) - 1) :
               RecordAfter(p) = RecordBefore(p + 1)
  /\ (ret'.op = "updateVector" /\ ret'.err = NoError) =>
       LET pos == LowestPosition(CalledId)
       IN /\ vectors'[pos] = CalledVector
          /\ metadata'[pos].id = CalledId
          /\ \A p \in 1..Len(metadata) :
               p # pos => RecordAfter(p) = RecordBefore(p)

\* A search that asks for at least as many results as the store holds
\* returns every id as often as it is stored.
C20_SearchFindsDuplicates ==
  (SearchOk /\ ret.args[2] >= Len(metadata))
  => \A i \in Ids : Occurrences(ret.out, i) = Occurrences(metadata, i)

(* C20: the store does not deduplicate ids: addVectors with an id that is  *)
(* already stored succeeds and adds a second, separate record at a new     *)
(* position; both records are scanned and can both appear in the results   *)
(* of one search; removeVector(id) and updateVector(id, v) act only on the *)
(* record with the lowest position among those sharing the id.             *)
C20_NoDeduplication ==
  [][C20_StepNoDeduplication]_vars /\ []C20_SearchFindsDuplicates

\* Two records share an id; updateVector with that id has put its vector
\* at the lower of the two positions, and the record at the higher one
\* holds another vector.
C20_Witness ==
  /\ ret.op = "updateVector"
  /\ ret.err = NoError
  /\ Len(metadata) >= 2
  /\ metadata[1].id = ret.args[1]
  /\ metadata[2].id = ret.args[1]
  /\ vectors[1] = ret.args[2]
  /\ vectors[2] # ret.args[2]
  /\ metadata[2].index = 1

(* --------------------------- QueryRAG: properties --------------------- *)

\* The document-role embedding of a description.
DocumentEmbedding(description) == ModelOutput(PassagePrefix \o Trim(description))

\* The positions of the index that hold a record under queryId.
PositionsOf(queryId) == {p \in 1..Len(metadata) : metadata[p].id = queryId}

\* The index holds one vector for every record of the catalogue, the
\* document-role embedding of its description, and nothing else.
IndexMatchesCatalogue ==
  /\ Len(vectors) = Len(queries)
  /\ \A q \in 1..Len(queries) :
       /\ Cardinality(PositionsOf(queries[q].id)) = 1
       /\ \A p \in PositionsOf(queries[q].id) :
            vectors[p] = DocumentEmbedding(queries[q].description)
  /\ \A p \in 1..Len(metadata) : Has(queries, metadata[p].id)

\* The last call of QueryRAG has settled and nothing has been called since.
Settled(op) == pc = "idle" /\ ragRet.op = op

\* C21: after a successful QueryRAG.initialize (one that did its work, not
\* the early return of an initialized QueryRAG) the index holds exactly one
\* vector for every record of the catalogue and no others, each under its
\* record's id and equal to the 'passage: ' embedding of that record's
\* description.
C21_IndexIsCatalogue ==
  (Settled("initialize") /\ ragRet.err = NoError /\ ragRet.calls # <<>>)
    => IndexMatchesCatalogue


\* A call of initialize made in this step returned at once, without error
\* and without calling a collaborator, and left the embedder, the catalogue,
\* the data file and the index as they were.
InitializeIsNoOp ==
  /\ pc' # "initialize.store"
  /\ (pc' = "idle" /\ ragRet'.op = "initialize")
       => /\ ragRet'.err = NoError
          /\ ragRet'.calls = <<>>
          /\ UNCHANGED <<embedderIsInitialized, queries, disk, storeVars,
                         queryRagIsInitialized>>

C22_StepInitializeAgain ==
  (pc = "idle" /\ lifecycle = "initialized") => InitializeIsNoOp

\* C22 (amended): every call of QueryRAG.initialize made after a successful
\* initialize, with no call of close() in between, returns without error and
\* leaves the embedder, the catalogue and the vector index (records, order,
\* count) unchanged; no record is indexed a second time.
C22_InitializeIdempotent == [][C22_StepInitializeAgain]_vars

\* An initialize call on an initialized QueryRAG with a non-empty index has
\* returned.
C22_Witness ==
  /\ Settled("initialize")
  /\ ragRet.err = NoError
  /\ ragRet.calls = <<>>
  /\ lifecycle = "initialized"
  /\ Len(vectors) > 0

C22_StepAsClaimed ==
  (pc = "idle" /\ lifecycle # "new") => InitializeIsNoOp

\* C22 as stated: every call of initialize made after a successful
\* initialize, a close() in between or not, is a no-op.
C22_AsClaimed == [][C22_StepAsClaimed]_vars


C23_StepSearchNotInitialized ==
  (pc = "idle" /\ lifecycle # "initialized")
    => /\ pc' # "search.store"
       /\ (pc' = "idle" /\ ragRet'.op = "searchSimilarQueries")
            => /\ ragRet'.err = Error("NotInitialized")
               /\ ragRet'.calls = <<>>
               /\ UNCHANGED storeAndRet

RecordOf(queryId) ==
  queries[CHOOSE q \in 1..Len(queries) : queries[q].id = queryId]

\* result is what searchSimilarQueries makes of the pair found by the index.
Merged(result, found) ==
  /\ result.id = found.id
  /\ result.similarity = found.score
  /\ IF Has(queries, found.id)
     THEN /\ result.description = RecordOf(found.id).description
          /\ result.sqlScript = RecordOf(found.id).sqlScript
          /\ result.metadata = RecordOf(found.id).metadata
     ELSE /\ result.description = EmptyString
          /\ result.sqlScript = EmptyString
          /\ result.metadata = {}

C24_StepSearchMerges ==
  (pc = "search.end" /\ ret.err = NoError)
    => /\ ragRet'.op = "searchSimilarQueries"
       /\ ragRet'.err = NoError
       /\ Len(ragRet'.out) = Len(ret.out)
       /\ \A p \in 1..Len(ret.out) : Merged(ragRet'.out[p], ret.out[p])

\* C24: when VectorStore.search has returned, searchSimilarQueries succeeds
\* with one result per {id, score} pair, in the same order and with the same
\* id and score, carrying the catalogue record's description, sqlScript and
\* metadata, or empty strings and an empty metadata object when the
\* catalogue has no record under the id.
C24_SearchMerges == [][C24_StepSearchMerges]_vars

\* A search has returned a result whose id the catalogue does not have.
C24_Witness ==
  /\ Settled("searchSimilarQueries")
  /\ ragRet.err = NoError
  /\ \E p \in 1..Len(ragRet.out) :
       /\ ~Has(queries, ragRet.out[p].id)
       /\ ragRet.out[p].description = EmptyString
  /\ queries # <<>>


\* The catalogue has one record more, under an id it did not have.
Persisted(queryId) ==
  /\ ~Has(queries, queryId)
  /\ Len(queries') = Len(queries) + 1
  /\ SubSeq(queries', 1, Len(queries)) = queries
  /\ queries'[Len(queries')].id = queryId
  /\ disk' = queries'

\* The step that starts an addQuery call: validation, persisting, embedding.
C25_StepAddQueryStarts ==
  /\ pc' = "addQuery.store"
       => /\ Persisted(frame'.queryId)
          /\ frame'.calls = <<"queryData.addQuery", "embedder.embedDocument">>
          /\ UNCHANGED storeVars
  /\ (pc' = "idle" /\ ragRet'.op = "addQuery")
       => /\ ragRet'.err # NoError
          /\ UNCHANGED storeVars
          /\ \/ /\ ragRet'.err = Error("InvalidArgument")
                /\ ragRet'.calls = <<>>
                /\ UNCHANGED <<queries, disk>>
             \/ /\ ragRet'.err = embedDocument(ragRet'.args[1].description,
                                               FALSE).err
                   \/ ragRet'.err = Error("EmbeddingFailed")
                /\ ragRet'.calls =
                     <<"queryData.addQuery", "embedder.embedDocument">>
                /\ Persisted(FreshIds[uuids'])
                /\ PositionsOf(FreshIds[uuids']) = {}

\* The step that adds the vector to the index.
C25_StepAddQueryStores ==
  /\ UNCHANGED <<queries, disk>>
  /\ ret'.op = "addVectors"
  /\ ret'.args = <<<<frame.embedding>>, <<frame.queryId>>>>
  /\ IF ret'.err = NoError
     THEN /\ Len(vectors') = Len(vectors) + 1
          /\ metadata'[Len(metadata')].id = frame.queryId
     ELSE UNCHANGED storeVars

\* The step that settles the call.
C25_StepAddQueryEnds ==
  /\ UNCHANGED <<queries, disk, storeVars>>
  /\ ragRet'.op = "addQuery"
  /\ ragRet'.err = ret.err
  /\ ragRet'.calls = <<"queryData.addQuery", "embedder.embedDocument",
                       "vectorStore.addVectors">>
  /\ Has(queries, frame.queryId)
  /\ IF ret.err = NoError
     THEN /\ ragRet'.out = <<frame.queryId>>
          /\ Cardinality(PositionsOf(frame.queryId)) = 1
     ELSE PositionsOf(frame.queryId) = {}

C25_StepAddQuery ==
  /\ pc = "idle" => C25_StepAddQueryStarts
  /\ pc = "addQuery.store" => C25_StepAddQueryStores
  /\ pc = "addQuery.end" => C25_StepAddQueryEnds

\* C25 (amended): addQuery persists the record, then embeds the description,
\* then adds the vector to the index; it succeeds only if all three succeed
\* and otherwise fails with the first error; when the embedding or the
\* index-add fails after the record was persisted, the record stays in the
\* catalogue with no vector in the index: the call leaves the catalogue with
\* one record more and the index with the count it had.
C25_AddQueryNoRollback == [][C25_StepAddQuery]_vars

\* An addQuery has failed in its index-add step and its record is in the
\* catalogue.
C25_Witness ==
  /\ Settled("addQuery")
  /\ ragRet.err # NoError
  /\ ragRet.calls = <<"queryData.addQuery", "embedder.embedDocument",
                      "vectorStore.addVectors">>
  /\ uuids > 0
  /\ Has(queries, FreshIds[uuids])
  /\ PositionsOf(FreshIds[uuids]) = {}

\* C25 as stated: after an addQuery that failed once its record was
\* persisted, the catalogue count exceeds the index count by one.
C25_AsClaimed ==
  (Settled("addQuery") /\ ragRet.err # NoError /\ ragRet.calls # <<>>)
    => Len(queries) = Len(vectors) + 1


\* The catalogue has lost its record under queryId and kept the others.
Unpersisted(queryId) ==
  /\ Has(queries, queryId)
  /\ ~Has(queries', queryId)
  /\ Len(queries') = Len(queries) - 1
  /\ \A q \in 1..Len(queries') : \E r \in 1..Len(queries) : queries'[q] = queries[r]
  /\ disk' = queries'

\* The step that starts a removeQuery call: the catalogue removal.
C26_StepRemoveQueryStarts ==
  /\ pc' = "removeQuery.store"
       => /\ Unpersisted(frame'.args[1])
          /\ frame'.calls = <<"queryData.removeQuery">>
          /\ UNCHANGED storeAndRet
  /\ (pc' = "idle" /\ ragRet'.op = "removeQuery")
       => /\ ragRet'.err = Error("QueryNotFound")
          /\ ~Has(queries, ragRet'.args[1])
          /\ ragRet'.calls = <<"queryData.removeQuery">>
          /\ UNCHANGED <<queries, disk, storeAndRet>>

\* The step that removes the vector from the index.
C26_StepRemoveQueryStores ==
  /\ UNCHANGED <<queries, disk>>
  /\ ret'.op = "removeVector"
  /\ ret'.args = <<frame.args[1]>>
  /\ PositionsOf(frame.args[1]) = {}
       => (ret'.err = Error("NotFound") /\ UNCHANGED storeVars)

\* The step that settles the call.
C26_StepRemoveQueryEnds ==
  /\ UNCHANGED <<queries, disk, storeVars>>
  /\ ragRet'.op = "removeQuery"
  /\ ragRet'.err = ret.err
  /\ ~Has(queries, frame.args[1])

C26_StepRemoveQuery ==
  /\ pc = "idle" => C26_StepRemoveQueryStarts
  /\ pc = "removeQuery.store" => C26_StepRemoveQueryStores
  /\ pc = "removeQuery.end" => C26_StepRemoveQueryEnds

\* C26: removeQuery(id) removes the record from the catalogue first and from
\* the index second; when the index has no record under id the call fails
\* and the catalogue deletion stays; when the catalogue has no record under
\* id the call fails and the index is not touched.
C26_RemoveQueryOrder == [][C26_StepRemoveQuery]_vars

\* A removeQuery has failed in the index after deleting the catalogue record.
C26_Witness ==
  /\ Settled("removeQuery")
  /\ ragRet.err = Error("NotFound")
  /\ ragRet.calls = <<"queryData.removeQuery", "vectorStore.removeVector">>
  /\ ~Has(queries, ragRet.args[1])


\* C27: after a successful updateQuery(id, updates) whose updates carry a
\* description, the vector stored under id is the 'passage: ' embedding of
\* the record's current persisted description.
C27_UpdateQueryReembeds ==
  (/\ Settled("updateQuery")
   /\ ragRet.err = NoError
   /\ "description" \in DOMAIN ragRet.args[2]
   /\ PositionsOf(ragRet.args[1]) # {})
    => \E p \in PositionsOf(ragRet.args[1]) :
         vectors[p] = DocumentEmbedding(RecordOf(ragRet.args[1]).description)


\* C28: embedQuery and embedDocument never return to QueryRAG a vector whose
\* length is not getDimension().
C28_EmbeddingHasDeclaredLength ==
  /\ pc = "search.store" => Len(frame.queryEmbedding) = getDimension
  /\ pc \in {"addQuery.store", "updateQuery.store"}
       => Len(frame.embedding) = getDimension


\* The texts the callers and the data file hand to the embedder, as the
\* model reads them behind the prefix.
Texts ==
  {Trim(text) : text \in SearchTexts}
    \cup {Trim(queryInfo.description) : queryInfo \in QueryInfos}
    \cup {Trim(updates.description) :
            updates \in {u \in Updates : "description" \in DOMAIN u}}
    \cup {Trim(RecordA.description), Trim(RecordB.description)}

\* vector is what the model returns for some text behind prefix.
ProducedWith(vector, prefix) ==
  \E text \in Texts : vector = ModelOutput(prefix \o text)

IsDocumentVector(vector) ==
  ProducedWith(vector, PassagePrefix) /\ ~ProducedWith(vector, QueryPrefix)

IsQueryVector(vector) ==
  ProducedWith(vector, QueryPrefix) /\ ~ProducedWith(vector, PassagePrefix)

\* C29: every vector QueryRAG hands to addVectors or updateVector, and so
\* every vector of the index, is produced with the prefix 'passage: ', and
\* every vector it hands to search is produced with the prefix 'query: '.
C29_RolesNeverMixed ==
  /\ ret.op = "addVectors"
       => \A p \in 1..Len(ret.args[1]) : IsDocumentVector(ret.args[1][p])
  /\ ret.op = "updateVector" => IsDocumentVector(ret.args[2])
  /\ ret.op = "search" => IsQueryVector(ret.args[1])
  /\ \A p \in 1..Len(vectors) : IsDocumentVector(vectors[p])

\* A search runs on an index filled by initialize and changed by updateQuery.
C29_Witness ==
  /\ ret.op = "search"
  /\ ret.err = NoError
  /\ Len(vectors) > 1
  /\ \E p \in 1..Len(vectors) :
       vectors[p] # DocumentEmbedding(RecordA.description)
       /\ metadata[p].id = RecordA.id


(* --------------------------- VectorStore: atomicity ------------------- *)

\* The three collections have one length and every record's index is its
\* position.
WholeState ==
  /\ Len(vectors) = Len(metadata)
  /\ Len(normalizedVectors) = Len(metadata)
  /\ \A p \in 1..Len(metadata) : metadata[p].index = p - 1

\* The step is a call of one of the four operations.
IsOperation ==
  /\ ret = NoCall
  /\ ret'.op \in {"addVectors", "search", "removeVector", "updateVector"}

C30_StepSeesWholeState == IsOperation => WholeState

Starts(op, firstAwait) ==
  /\ pc = "idle"
  /\ pc' = firstAwait \/ (pc' = "idle" /\ ragRet'.op = op)

\* Every record of the data file is still in the data file after the step.
KeepsDataFile ==
  \A i \in 1..Len(disk) : \E j \in 1..Len(disk') : disk'[j] = disk[i]

C33_StepAddQueryKeepsRecords ==
  Starts("addQuery", "addQuery.store") => KeepsDataFile

\* C33: every record that was in the data file before an addQuery call is
\* still in the data file after the call, also before initialize has loaded
\* the catalogue and after close() has cleared it.
C33_AddQueryKeepsRecords == [][C33_StepAddQueryKeepsRecords]_vars


\* The last step of close: the index is empty and not initialized, the
\* catalogue is emptied, the data file keeps its records.
C38_StepCloseEnds ==
  /\ vectors' = <<>> /\ normalizedVectors' = <<>> /\ metadata' = <<>>
  /\ isInitialized' = FALSE
  /\ queries' = <<>>
  /\ queryRagIsInitialized' = FALSE
  /\ disk' = disk

\* The step settles without error an initialize that was called right
\* after close (the last call settled before it is the close).
InitializeAfterCloseSucceeds ==
  /\ pc \in {"initialize.index", "initialize.end"}
  /\ ragRet.op = "close"
  /\ pc' = "idle"
  /\ ragRet'.err = NoError

\* The index and the catalogue are those of the data file.
C38_StepRestored ==
  /\ UNCHANGED <<storeVars, queries, disk>>
  /\ isInitialized
  /\ queries = disk
  /\ IndexMatchesCatalogue

C38_StepCloseAndRestore ==
  /\ pc = "close.end" => C38_StepCloseEnds
  /\ InitializeAfterCloseSucceeds => C38_StepRestored

IndexIds == {metadata[p].id : p \in 1..Len(metadata)}
CatalogueIds == {queries[q].id : q \in 1..Len(queries)}

\* C32: between calls of a run of successful QueryRAG operations that starts
\* with initialize, the ids of the index are the ids of the catalogue, no id
\* occurs twice in the index, and getStats().totalQueries equals
\* getStats().vectorStoreInfo.vectorCount.
C32_IndexFollowsCatalogue ==
  pc = "idle"
    => /\ IndexIds = CatalogueIds
       /\ Cardinality(IndexIds) = Len(metadata)
       /\ getStats.totalQueries = getStats.vectorStoreInfo.vectorCount

\* After an addQuery, an updateQuery and a removeQuery a search has returned.
C32_Witness ==
  /\ Settled("searchSimilarQueries")
  /\ ragRet.err = NoError
  /\ uuids > 0
  /\ removed > 0
  /\ Len(vectors) > 0
  /\ \E q \in 1..Len(queries) : queries[q] \notin {RecordA, RecordB}


(* --------------------------- QueryRAG: overlapping calls -------------- *)

\* No call of a caller is in flight.
AllReturned == \A c \in DOMAIN callers : callers[c].pc = "idle"

\* C35: once initialize calls that overlapped, or that were made again after
\* a failed one, have returned and the QueryRAG is initialized, every record
\* of the catalogue is in the index exactly once.
C35_InitializeIndexesOnce ==
  (AllReturned /\ queryRagIsInitialized)
    => \A q \in 1..Len(queries) : Cardinality(PositionsOf(queries[q].id)) = 1


\* Both callers have last returned from a successful updateQuery of the same
\* id, with descriptions that differ.
BothUpdated(queryId) ==
  /\ AllReturned
  /\ \A c \in Callers :
       /\ callers[c].ret.op = "updateQuery"
       /\ callers[c].ret.err = NoError
       /\ callers[c].ret.args[1] = queryId
  /\ callers[1].ret.args[2].description # callers[2].ret.args[2].description

\* C34: once two updateQuery calls for one id with different descriptions
\* have both completed, the vector stored under the id is the embedding of
\* the description the catalogue holds for the id.
C34_OverlappingUpdatesAgree ==
  (BothUpdated(RecordA.id) /\ Cardinality(PositionsOf(RecordA.id)) = 1)
    => \A p \in PositionsOf(RecordA.id) :
         vectors[p] = DocumentEmbedding(RecordOf(RecordA.id).description)


\* Caller c is the only one that has called anything.
CallsAlone(c) ==
  \A d \in Callers \ {c} : callers[d].pc = "idle" /\ callers[d].ret = NoRagCall

\* The step in which the writeFile of caller c's updateQuery fails and the
\* call raises the error.
SaveFails(c) ==
  /\ callers[c].pc = "updateQuery.save"
  /\ callers'[c].pc = "idle"
  /\ callers'[c].ret.err = Error("SaveFailed")

\* One step: the failing write leaves the catalogue with the record the call
\* found under the id.
C36_StepSaveFailureRestores ==
  \A c \in Callers :
    (CallsAlone(c) /\ SaveFails(c))
      => /\ queries' = queries
         /\ RecordOf(callers[c].frame.args[1]) = callers[c].frame.existingQuery

\* C36: when the write of the data file fails, updateQuery raises the error
\* and the in-memory catalogue is the same as before the call.
C36_SaveFailureRestores == [][C36_StepSaveFailureRestores]_vars


\* C37: once updateQuery calls whose writes of the data file overlapped have
\* all completed successfully, the records of the data file are the records
\* of the catalogue.
C37_OverlappingSavesAgree ==
  (/\ AllReturned
   /\ \A c \in Callers : /\ callers[c].ret.op = "updateQuery"
                         /\ callers[c].ret.err = NoError)
    => disk = queries


(* --------------------------- McpTools: properties --------------------- *)

\* The last callTool invocation that settled was of the tool name.
Returned(name) == requests.ret.name = name

\* C31: a search_queries call without topK returns at most the schema's
\* default number of results (1), and a call whose topK is outside the
\* schema's range (1..1) is rejected with an error before any search is
\* performed.
C31_SearchHonoursSchema ==
  Returned("search_queries")
    => /\ ("topK" \notin DOMAIN requests.ret.args
             /\ requests.ret.result.err = NoError)
            => requests.ret.result.out.resultCount
                 <= SearchQueriesTopK.default
       /\ ("topK" \in DOMAIN requests.ret.args
             /\ (\/ requests.ret.args.topK < SearchQueriesTopK.minimum
                 \/ requests.ret.args.topK > SearchQueriesTopK.maximum))
            => /\ requests.ret.result.err # NoError
               /\ ~requests.ret.called


\* The callTool invocations of tool name that have not settled.
InFlight(name) == {r \in requests.inFlight : r.name = name}

\* C39: every callTool invocation is counted once by logToolCall and, when it
\* has completed, once by logToolResult or by logToolError: total is at least
\* successful + failed, and equal to it when no call is in flight, overall
\* and for every tool of byTool, and errors.total equals toolCalls.failed.
C39_CountersConsistent ==
  LET toolCalls == inspector.metrics.toolCalls
  IN /\ toolCalls.total = requests.issued
     /\ toolCalls.successful + toolCalls.failed
          = requests.issued - Cardinality(requests.inFlight)
     /\ toolCalls.total >= toolCalls.successful + toolCalls.failed
     /\ requests.inFlight = {}
          => toolCalls.total = toolCalls.successful + toolCalls.failed
     /\ \A name \in DOMAIN toolCalls.byTool :
          LET tool == toolCalls.byTool[name]
          IN /\ tool.total >= tool.successful + tool.failed
             /\ tool.total
                  = tool.successful + tool.failed + Cardinality(InFlight(name))
     /\ inspector.metrics.errors.total = toolCalls.failed

\* One invocation has succeeded, one has failed and one is in flight.
C39_Witness ==
  /\ inspector.metrics.toolCalls.successful > 0
  /\ inspector.metrics.toolCalls.failed > 0
  /\ requests.inFlight # {}


\* The last n entries of a sequence, all of them when it has fewer.
Latest(s, n) == SubSeq(s, IF Len(s) > n THEN Len(s) - n + 1 ELSE 1, Len(s))

\* C40: the log holds at most options.maxLogEntries entries, and they are
\* the entries logged last, in the order in which they were logged.
C40_LogIsBoundedFifo ==
  /\ Len(inspector.logs) <= inspector.options.maxLogEntries
  /\ inspector.logs = Latest(requests.logged, inspector.options.maxLogEntries)

\* Entries have been discarded and more than one is kept.
C40_Witness ==
  /\ Len(requests.logged) > Len(inspector.logs)
  /\ Len(inspector.logs) > 1


====
